---------------------------- MODULE Spec2Model ----------------------------
(***************************************************************************)
(* A model of BMJson (include/BMJson.h): the JsonValue tagged union, the   *)
(* JsonTokenizer, the recursive-descent parser and the serializer of class *)
(* Json, and the JsonValueWrapper accessor.                                *)
(*                                                                         *)
(* Text is a sequence of one-character strings.  A JsonValue is a record   *)
(* with a field "type" naming the active alternative of the variant.  A    *)
(* std::shared_ptr to a container is a record with a field "null"; when it *)
(* is not null it carries the container it points to.                      *)
(***************************************************************************)
EXTENDS Integers, Sequences, FiniteSets, TLC

\* ------------------------------------------------------------------------
\* Characters and text
\* ------------------------------------------------------------------------

\* The value Peek() and Get() return at the end of the input ('\0').
NUL == "NUL"

Digits == {"0", "1", "2", "3", "4", "5", "6", "7", "8", "9"}

DigitVal(c) ==
    CASE c = "0" -> 0 [] c = "1" -> 1 [] c = "2" -> 2 [] c = "3" -> 3
      [] c = "4" -> 4 [] c = "5" -> 5 [] c = "6" -> 6 [] c = "7" -> 7
      [] c = "8" -> 8 [] c = "9" -> 9

DigitChar(d) ==
    CASE d = 0 -> "0" [] d = 1 -> "1" [] d = 2 -> "2" [] d = 3 -> "3"
      [] d = 4 -> "4" [] d = 5 -> "5" [] d = 6 -> "6" [] d = 7 -> "7"
      [] d = 8 -> "8" [] d = 9 -> "9"

\* std::isspace in the "C" locale
IsSpace(c) == c \in {" ", "\t", "\n", "\r", "\f"}

Min(a, b) == IF a < b THEN a ELSE b

\* std::string_view::substr(Pos, Count) with Pos <= size()
Substr(s, pos, count) == SubSeq(s, pos + 1, Min(pos + count, Len(s)))

\* The text of a one-character string literal: "c"
Quoted(c) == <<"\"", c, "\"">>

RECURSIVE Pow10(_)
Pow10(n) == IF n <= 0 THEN 1 ELSE 10 * Pow10(n - 1)

\* ------------------------------------------------------------------------
\* Tokens and the tokenizer
\* ------------------------------------------------------------------------

\* JsonToken{Type, Position, Value}
Token(type, pos, value) == [Type |-> type, Position |-> pos, Value |-> value]

\* The default member values of JsonToken, and {JsonTokenType::Invalid, 0, ""}
InvalidToken == Token("Invalid", 0, <<>>)

\* JsonTokenizer::Init
TokenizerInit(input) ==
    [Input |-> input, Position |-> 0, CurrentToken |-> InvalidToken]

IsValidNumberChar(c) == c \in Digits \cup {".", "-", "+", "e", "E"}

\* JsonTokenizer::Peek (the character at the cursor)
PeekChar(t) ==
    IF t.Position < Len(t.Input) THEN t.Input[t.Position + 1] ELSE NUL

\* JsonTokenizer::Get: the position after the call (the character is PeekChar)
GetChar(t) ==
    IF t.Position < Len(t.Input)
    THEN [t EXCEPT !.Position = t.Position + 1]
    ELSE t

RECURSIVE SkipWhitespace(_)
SkipWhitespace(t) ==
    IF t.Position < Len(t.Input) /\ IsSpace(t.Input[t.Position + 1])
    THEN SkipWhitespace([t EXCEPT !.Position = t.Position + 1])
    ELSE t

\* The results of the lexing functions: the tokenizer after the call and
\* the token returned.
Lexed(t, tok) == [t |-> t, tok |-> tok]

ParseNull(t) ==
    IF Substr(t.Input, t.Position, 4) = <<"n", "u", "l", "l">>
    THEN Lexed([t EXCEPT !.Position = t.Position + 4],
               Token("Null", t.Position, <<"n", "u", "l", "l">>))
    ELSE Lexed(t, Token("Invalid", t.Position, <<>>))

ParseBoolean(t) ==
    IF Substr(t.Input, t.Position, 4) = <<"t", "r", "u", "e">>
    THEN Lexed([t EXCEPT !.Position = t.Position + 4],
               Token("Boolean", t.Position, <<"t", "r", "u", "e">>))
    ELSE IF Substr(t.Input, t.Position, 5) = <<"f", "a", "l", "s", "e">>
    THEN Lexed([t EXCEPT !.Position = t.Position + 5],
               Token("Boolean", t.Position, <<"f", "a", "l", "s", "e">>))
    ELSE Lexed(t, Token("Invalid", t.Position, <<>>))

\* The for loop of ParseString: Current = Get() until '\0' or the closing
\* quote; a backslash appends the following Get() whatever it is.
RECURSIVE ParseStringLoop(_, _)
ParseStringLoop(t, value) ==
    LET Current == PeekChar(t)
        t1 == GetChar(t)
    IN  IF Current = NUL THEN [t |-> t1, value |-> value]
        ELSE IF Current = "\\"
        THEN ParseStringLoop(GetChar(t1), Append(value, PeekChar(t1)))
        ELSE IF Current = "\"" THEN [t |-> t1, value |-> value]
        ELSE ParseStringLoop(t1, Append(value, Current))

ParseString(t) ==
    LET r == ParseStringLoop(GetChar(t), <<>>)
    IN  Lexed(r.t, Token("String", t.Position, r.value))

RECURSIVE ParseNumerLoop(_, _)
ParseNumerLoop(t, value) ==
    IF IsValidNumberChar(PeekChar(t))
    THEN ParseNumerLoop(GetChar(t), Append(value, PeekChar(t)))
    ELSE [t |-> t, value |-> value]

ParseNumer(t) ==
    LET r == ParseNumerLoop(t, <<>>)
    IN  Lexed(r.t, Token("Number", t.Position, r.value))

\* One structural character: {Type, TokenPosition, {Get()}}
Symbol(t, type) ==
    Lexed(GetChar(t), Token(type, t.Position, <<PeekChar(t)>>))

\* NextToken after SkipWhitespace: the switch on the character at the cursor.
NextTokenAt(t) ==
    IF t.Position >= Len(t.Input)
    THEN Lexed(t, Token("None", t.Position, <<>>))
    ELSE CASE PeekChar(t) = "{" -> Symbol(t, "ObjectStart")
           [] PeekChar(t) = "}" -> Symbol(t, "ObjectEnd")
           [] PeekChar(t) = "[" -> Symbol(t, "ArrayStart")
           [] PeekChar(t) = "]" -> Symbol(t, "ArrayEnd")
           [] PeekChar(t) = "," -> Symbol(t, "Comma")
           [] PeekChar(t) = ":" -> Symbol(t, "Colon")
           [] PeekChar(t) = "n" -> ParseNull(t)
           [] PeekChar(t) = "\"" -> ParseString(t)
           [] PeekChar(t) \in {"t", "f"} -> ParseBoolean(t)
           [] OTHER ->
                IF IsValidNumberChar(PeekChar(t))
                THEN ParseNumer(t)
                ELSE Lexed(t, Token("Invalid", t.Position, <<>>))

NextToken(t) == NextTokenAt(SkipWhitespace(t))

\* CurrentToken = NextToken(), returning the token tok.
Cached(n, tok) == Lexed([n.t EXCEPT !.CurrentToken = n.tok], tok)

\* PeekToken lexing a token on every call, whatever the cache holds.
PeekTokenAdvancing(t) == Cached(NextToken(t), NextToken(t).tok)

\* PeekToken fills the one-token cache when it holds an Invalid token and
\* returns the cache.
PeekToken(t) ==
    IF t.CurrentToken.Type = "Invalid"
    THEN Cached(NextToken(t), NextToken(t).tok)
    ELSE Lexed(t, t.CurrentToken)

\* GetToken after its first if: Token = CurrentToken; CurrentToken =
\* NextToken(); return Token.
GetTokenCached(p) == Cached(NextToken(p.t), p.tok)

\* GetToken returns the cached token and lexes the one after it at once.
GetToken(t) == GetTokenCached(PeekToken(t))


\* ------------------------------------------------------------------------
\* JsonValue, JsonObject, JsonArray
\* ------------------------------------------------------------------------

\* A std::shared_ptr: null, or pointing to the container given.
NullPtr == [null |-> TRUE]
MakeShared(c) == [null |-> FALSE, obj |-> c]

\* JsonObject{Properties}: the unordered_map as a function from keys.
EmptyMap == [k \in {} |-> 0]
NewJsonObject == [Properties |-> EmptyMap]
\* JsonArray{Values}
NewJsonArray == [Values |-> <<>>]

\* The alternatives of the variant JsonValue.
Undefined == [type |-> "Undefined"]
NullValue == [type |-> "Null"]
BoolValue(b) == [type |-> "Bool", v |-> b]
IntValue(n) == [type |-> "Int64", v |-> n]
\* A double is held exactly as the decimal m * 10^e, with m not a multiple
\* of 10 (and e = 0 when m = 0).
FloatValue(m, e) == [type |-> "Float64", m |-> m, e |-> e]
StringValue(s) == [type |-> "String", v |-> s]
ArrayValue(ptr) == [type |-> "Array", ptr |-> ptr]
ObjectValue(ptr) == [type |-> "Object", ptr |-> ptr]

\* TJsonValueTypeConverter<T>::Type, as the alternative of JsonValue that a
\* type parameter T selects.
TJsonValueTypeConverter(T) ==
    CASE T \in {"int", "size_t", "int64_t"} -> "Int64"
      [] T \in {"float", "double"} -> "Float64"
      [] T = "bool" -> "Bool"
      [] T = "std::string" -> "String"
      [] T \in {"JsonArray", "std::shared_ptr<JsonArray>"} -> "Array"
      [] T \in {"JsonObject", "std::shared_ptr<JsonObject>"} -> "Object"
      [] T = "UndefinedValue" -> "Undefined"
      [] T = "nullptr_t" -> "Null"

\* HasType<T>(Value)
HasType(T, Value) == Value.type = TJsonValueTypeConverter(T)

\* unordered_map::emplace: inserts only when the key is not yet present.
Emplace(map, key, value) ==
    IF key \in DOMAIN map THEN map
    ELSE [k \in DOMAIN map \cup {key} |-> IF k = key THEN value ELSE map[k]]

\* unordered_map::operator[]: the map after the call (an absent key is
\* inserted with a default-constructed JsonValue, which is Undefined).
Subscript(map, key) == Emplace(map, key, Undefined)

\* Assignment through the reference operator[] returned.
Store(map, key, value) ==
    [k \in DOMAIN map \cup {key} |-> IF k = key THEN value ELSE map[k]]

\* ------------------------------------------------------------------------
\* std::stoll, std::stod, std::to_string
\* ------------------------------------------------------------------------

CharAt(s, i) == IF i >= 1 /\ i <= Len(s) THEN s[i] ELSE NUL

\* The number of digits of s from index i on.
RECURSIVE DigitRun(_, _)
DigitRun(s, i) == IF CharAt(s, i) \in Digits THEN 1 + DigitRun(s, i + 1) ELSE 0

\* The value of the n digits of s from index i on, after the digits acc.
RECURSIVE DigitsValue(_, _, _, _)
DigitsValue(s, i, n, acc) ==
    IF n = 0 THEN acc
    ELSE DigitsValue(s, i + 1, n - 1, 10 * acc + DigitVal(s[i]))

Converted(v) == [ok |-> TRUE, v |-> v]
ConversionFailed(what) == [ok |-> FALSE, what |-> what]

\* std::stoll(str): strtoll in base 10 on the longest prefix that is an
\* optional sign and digits; std::invalid_argument when there is no digit.
\* (std::out_of_range needs 19 digits, more than this model's texts hold.)
stoll(str) ==
    LET signed == CharAt(str, 1) \in {"+", "-"}
        first == IF signed THEN 2 ELSE 1
        n == DigitRun(str, first)
        magnitude == DigitsValue(str, first, n, 0)
    IN  IF n = 0 THEN ConversionFailed("invalid_argument")
        ELSE Converted(IF CharAt(str, 1) = "-" THEN 0 - magnitude ELSE magnitude)

RECURSIVE Normalize(_, _)
Normalize(m, e) ==
    IF m = 0 THEN [m |-> 0, e |-> 0]
    ELSE IF m % 10 = 0 THEN Normalize(m \div 10, e + 1)
    ELSE [m |-> m, e |-> e]

\* std::stod(str): strtod on the longest prefix that is an optional sign, a
\* digit string with at most one radix character and at least one digit,
\* and an optional exponent (e or E, optional sign, at least one digit);
\* std::invalid_argument when no conversion can be made.  (The texts of
\* this model stay inside the range of double.)
stod(str) ==
    LET signed == CharAt(str, 1) \in {"+", "-"}
        first == IF signed THEN 2 ELSE 1
        n1 == DigitRun(str, first)
        hasDot == CharAt(str, first + n1) = "."
        n2 == IF hasDot THEN DigitRun(str, first + n1 + 1) ELSE 0
        whole == DigitsValue(str, first, n1, 0)
        mant == IF hasDot THEN DigitsValue(str, first + n1 + 1, n2, whole) ELSE whole
        after == first + n1 + (IF hasDot THEN 1 + n2 ELSE 0)
        hasE == CharAt(str, after) \in {"e", "E"}
        esigned == CharAt(str, after + 1) \in {"+", "-"}
        efirst == IF esigned THEN after + 2 ELSE after + 1
        n3 == IF hasE THEN DigitRun(str, efirst) ELSE 0
        emag == DigitsValue(str, efirst, n3, 0)
        exp == IF n3 = 0 THEN 0
               ELSE IF CharAt(str, after + 1) = "-" THEN 0 - emag ELSE emag
        sm == IF CharAt(str, 1) = "-" THEN 0 - mant ELSE mant
    IN  IF n1 + n2 = 0 THEN ConversionFailed("invalid_argument")
        ELSE Converted(Normalize(sm, exp - n2))

\* The decimal digits of a natural number.
RECURSIVE NatText(_)
NatText(n) ==
    IF n < 10 THEN <<DigitChar(n)>>
    ELSE Append(NatText(n \div 10), DigitChar(n % 10))

\* std::to_string(int64_t) without the sign
IntToStringUnsigned(n) == IF n < 0 THEN NatText(0 - n) ELSE NatText(n)

\* std::to_string(int64_t)
IntToString(n) == IF n < 0 THEN <<"-">> \o NatText(0 - n) ELSE NatText(n)

\* The last n digits of a natural number, with leading zeros.
RECURSIVE PadText(_, _)
PadText(n, width) ==
    IF width = 0 THEN <<>>
    ELSE Append(PadText(n \div 10, width - 1), DigitChar(n % 10))

\* The digits std::to_string(double) writes after the decimal point ("%f").
FloatPrecision == 6

\* |m| * 10^e as its whole part and its fraction in units of
\* 10^-FloatPrecision, rounded to the nearest unit (to even on a tie).
FixedPoint(m, e) ==
    LET a == IF m < 0 THEN 0 - m ELSE m
        unit == Pow10(FloatPrecision)
    IN  IF e >= 0 THEN [whole |-> a * Pow10(e), frac |-> 0]
        ELSE IF 0 - e <= FloatPrecision
        THEN [whole |-> a \div Pow10(0 - e),
              frac |-> (a % Pow10(0 - e)) * Pow10(FloatPrecision + e)]
        ELSE LET d == Pow10(0 - e - FloatPrecision)
                 q == a \div d
                 r == a % d
                 u == IF 2 * r > d \/ (2 * r = d /\ q % 2 = 1)
                      THEN q + 1 ELSE q
             IN  [whole |-> u \div unit, frac |-> u % unit]

\* std::to_string(double): printf's "%f"
FloatToString(m, e) ==
    LET f == FixedPoint(m, e)
    IN  (IF m < 0 THEN <<"-">> ELSE <<>>)
        \o NatText(f.whole) \o <<".">> \o PadText(f.frac, FloatPrecision)

\* ------------------------------------------------------------------------
\* class Json: error reporting and the parser
\* ------------------------------------------------------------------------
\* The parsing functions act on a record js with the members of Json they
\* touch (Tokenizer, CurrentToken, ErrorMessage) and two observers:
\*   threw    the exception that left the function, "none" while none has;
\*   reports  the calls of ThrowError (token and reason), in call order.

\* std::optional<std::string> ErrorMessage without a value
NoError == [has |-> FALSE]

HasErrorIn(js) == js.ErrorMessage.has

MaxErrorLocation == 50

\* The text " *ERROR*--> " that ThrowError inserts, as one element of the
\* location text.
ErrorMarker == " *ERROR*--> "

\* ErrorLocation of ThrowError
ErrorLocation(Input, Position) ==
    IF Position >= Len(Input) THEN <<"Error position out of bounds">>
    ELSE LET Start == IF Position >= MaxErrorLocation
                      THEN Position - MaxErrorLocation ELSE 0
             Diff == Position - Start
             End == Min(Position + MaxErrorLocation + Diff, Len(Input))
             Location == Substr(Input, Start, End - Start)
         IN  IF Diff > 0
             THEN SubSeq(Location, 1, Diff) \o <<ErrorMarker>>
                  \o SubSeq(Location, Diff + 1, Len(Location))
             ELSE Location

\* The text std::format builds in ThrowError, as its four arguments.
FormatError(tok, location, message) ==
    [has |-> TRUE, Position |-> tok.Position, Value |-> tok.Value,
     ErrorLocation |-> location, message |-> message]

\* One call of ThrowError, as the observer reports keeps it.
Report(tok, message) == [tok |-> tok, message |-> message]

\* ThrowError that sets no ErrorMessage: the call is logged and that is all.
ThrowErrorSilent(js, tok, message) ==
    [js EXCEPT !.reports = Append(js.reports, Report(tok, message))]

\* ThrowError without its first line: every call sets ErrorMessage.
ThrowErrorUnlatched(js, tok, message) ==
    [js EXCEPT !.reports = Append(js.reports, Report(tok, message)),
               !.ErrorMessage =
                   FormatError(tok,
                               ErrorLocation(js.Tokenizer.Input, tok.Position),
                               message)]

\* Json::ThrowError: a no-op once ErrorMessage has a value.  (Every call is
\* logged in reports.)
ThrowError(js, tok, message) ==
    IF HasErrorIn(js)
    THEN [js EXCEPT !.reports = Append(js.reports, Report(tok, message))]
    ELSE [js EXCEPT !.reports = Append(js.reports, Report(tok, message)),
                    !.ErrorMessage =
                        FormatError(tok,
                                    ErrorLocation(js.Tokenizer.Input,
                                                  tok.Position),
                                    message)]

\* UpdateToken once the tokenizer has returned r: CurrentToken is set and an
\* Invalid token is reported.
TokenUpdated(js, r) ==
    IF r.tok.Type = "Invalid"
    THEN ThrowError([js EXCEPT !.Tokenizer = r.t, !.CurrentToken = r.tok],
                    r.tok, "Invalid token")
    ELSE [js EXCEPT !.Tokenizer = r.t, !.CurrentToken = r.tok]

\* Json::UpdateToken
UpdateToken(js, bPeak) ==
    TokenUpdated(js, IF bPeak THEN PeekToken(js.Tokenizer)
                     ELSE GetToken(js.Tokenizer))

Peek(js) == UpdateToken(js, TRUE)
Consume(js) == UpdateToken(js, FALSE)

\* The lambda IsFloat of ParseValue
IsFloat(text) == \E i \in 1..Len(text) : text[i] \in {".", "e"}

\* What a parsing function hands back: the parser afterwards and the value
\* (ParseValue) or the pointer (ParseArray, ParseObject) it returns.
Parsed(js, result) == [js |-> js, result |-> result]

\* return ParseObject() and return ParseArray() in ParseValue: the pointer
\* (null after an error) becomes the JsonValue.
ObjectParsed(r) == Parsed(r.js, ObjectValue(r.result))
ArrayParsed(r) == Parsed(r.js, ArrayValue(r.result))

\* Consume(); return CurrentToken.Value
StringParsed(js) == Parsed(js, StringValue(js.CurrentToken.Value))

\* A std::sto* conversion inside ParseValue: the value, or the exception.
Converting(js, conv, float) ==
    IF ~conv.ok THEN Parsed([js EXCEPT !.threw = conv.what], Undefined)
    ELSE IF float THEN Parsed(js, FloatValue(conv.v.m, conv.v.e))
    ELSE Parsed(js, IntValue(conv.v))

\* Consume(); then std::stod or std::stoll of CurrentToken.Value
NumberParsed(js) ==
    IF IsFloat(js.CurrentToken.Value)
    THEN Converting(js, stod(js.CurrentToken.Value), TRUE)
    ELSE Converting(js, stoll(js.CurrentToken.Value), FALSE)

\* Consume(); return CurrentToken.Value == "true"
BooleanParsed(js) ==
    Parsed(js, BoolValue(js.CurrentToken.Value = <<"t", "r", "u", "e">>))

RECURSIVE ParseValue(_), ParseArray(_), ParseObject(_)
RECURSIVE ParseArrayLoop(_, _), ParseObjectLoop(_, _)

\* ParseValue after its Peek(), leaving the slot unset without an error when
\* the token starts no value.
ParseValueLenient(js) ==
    CASE js.CurrentToken.Type = "ObjectStart" -> ObjectParsed(ParseObject(js))
      [] js.CurrentToken.Type = "ArrayStart" -> ArrayParsed(ParseArray(js))
      [] js.CurrentToken.Type = "String" -> StringParsed(Consume(js))
      [] js.CurrentToken.Type = "Number" -> NumberParsed(Consume(js))
      [] js.CurrentToken.Type = "Null" -> Parsed(Consume(js), NullValue)
      [] js.CurrentToken.Type = "Boolean" -> BooleanParsed(Consume(js))
      [] OTHER -> Parsed(js, Undefined)

\* ParseValue after its Peek(): the switch on CurrentToken.Type.
ParseValueSwitch(js) ==
    CASE js.CurrentToken.Type = "ObjectStart" -> ObjectParsed(ParseObject(js))
      [] js.CurrentToken.Type = "ArrayStart" -> ArrayParsed(ParseArray(js))
      [] js.CurrentToken.Type = "String" -> StringParsed(Consume(js))
      [] js.CurrentToken.Type = "Number" -> NumberParsed(Consume(js))
      [] js.CurrentToken.Type = "Null" -> Parsed(Consume(js), NullValue)
      [] js.CurrentToken.Type = "Boolean" -> BooleanParsed(Consume(js))
      [] OTHER ->
           Parsed(ThrowError(js, js.CurrentToken,
                             "Unexpected token while parsing value"),
                  Undefined)

ParseValue(js) == ParseValueSwitch(Peek(js))

\* The array loop after Values.push_back and Consume().
ArrayElementEnd(js, Values) ==
    IF js.CurrentToken.Type # "Comma" /\ js.CurrentToken.Type # "ArrayEnd"
    THEN Parsed(ThrowError(js, js.CurrentToken, "Expected ',' or ']'"),
                NullPtr)
    ELSE IF js.CurrentToken.Type = "ArrayEnd"
    THEN Parsed(js, MakeShared([Values |-> Values]))
    ELSE ParseArrayLoop(Peek(js), Values)

\* The array loop after auto Value = ParseValue().
ArrayElement(v, Values) ==
    IF v.js.threw # "none" THEN Parsed(v.js, NullPtr)
    ELSE IF HasErrorIn(v.js) THEN Parsed(v.js, NullPtr)
    ELSE ArrayElementEnd(Consume(v.js), Append(Values, v.result))

\* The body of the for(;; Peek()) loop of ParseArray; js holds the token the
\* loop was entered or re-entered with.
ParseArrayLoop(js, Values) == ArrayElement(ParseValue(js), Values)

\* ParseArray after its second token was peeked.
ArrayOpened(js) ==
    IF js.CurrentToken.Type = "ArrayEnd"
    THEN Parsed(Consume(js), MakeShared(NewJsonArray))
    ELSE ParseArrayLoop(js, <<>>)

\* ParseArray after its Consume().
ArrayStarted(js) ==
    IF js.CurrentToken.Type # "ArrayStart"
    THEN Parsed(ThrowError(js, js.CurrentToken, "Expected '['"), NullPtr)
    ELSE ArrayOpened(Peek(js))

ParseArray(js) == ArrayStarted(Consume(js))

\* The object loop after Properties.emplace and Consume().
PropertyEnd(js, Properties) ==
    IF js.CurrentToken.Type # "Comma" /\ js.CurrentToken.Type # "ObjectEnd"
    THEN Parsed(ThrowError(js, js.CurrentToken, "Expected ',' or '}'"),
                NullPtr)
    ELSE IF js.CurrentToken.Type = "ObjectEnd"
    THEN Parsed(js, MakeShared([Properties |-> Properties]))
    ELSE ParseObjectLoop(Peek(js), Properties)

\* The object loop after auto Value = ParseValue(), returning the object
\* built so far instead of {} when the value could not be parsed.
PropertyValueKeepingPartial(v, Key, Properties) ==
    IF v.js.threw # "none" THEN Parsed(v.js, NullPtr)
    ELSE IF HasErrorIn(v.js)
    THEN Parsed(v.js, MakeShared([Properties |-> Properties]))
    ELSE PropertyEnd(Consume(v.js), Emplace(Properties, Key, v.result))

\* The object loop after auto Value = ParseValue().
PropertyValue(v, Key, Properties) ==
    IF v.js.threw # "none" THEN Parsed(v.js, NullPtr)
    ELSE IF HasErrorIn(v.js) THEN Parsed(v.js, NullPtr)
    ELSE PropertyEnd(Consume(v.js), Emplace(Properties, Key, v.result))

\* The object loop after the Consume() that gets the colon.
PropertyColon(js, Key, Properties) ==
    IF js.CurrentToken.Type # "Colon"
    THEN Parsed(ThrowError(js, js.CurrentToken, "Expected ':'"), NullPtr)
    ELSE PropertyValue(ParseValue(js), Key, Properties)

\* The object loop after the Consume() that gets the key.
PropertyKey(js, Properties) ==
    PropertyColon(Consume(js), js.CurrentToken.Value, Properties)

\* The body of the for(;; Peek()) loop of ParseObject; js holds the token
\* the loop was entered or re-entered with.
ParseObjectLoop(js, Properties) ==
    IF js.CurrentToken.Type # "String"
    THEN Parsed(ThrowError(js, js.CurrentToken, "Expected string key"), NullPtr)
    ELSE PropertyKey(Consume(js), Properties)

\* ParseObject after its second token was peeked.
ObjectOpened(js) ==
    IF js.CurrentToken.Type = "ObjectEnd"
    THEN Parsed(Consume(js), MakeShared(NewJsonObject))
    ELSE ParseObjectLoop(js, EmptyMap)

\* ParseObject after its Consume().
ObjectStarted(js) ==
    IF js.CurrentToken.Type # "ObjectStart"
    THEN Parsed(ThrowError(js, js.CurrentToken, "Expected '{'"), NullPtr)
    ELSE ObjectOpened(Peek(js))

ParseObject(js) == ObjectStarted(Consume(js))

\* The members of Json after Parse, given what ParseObject handed back.
ParseEnded(doc, r) ==
    [Tokenizer |-> r.js.Tokenizer,
     CurrentToken |-> r.js.CurrentToken,
     ErrorMessage |-> r.js.ErrorMessage,
     RootObject |-> IF r.js.threw = "none" THEN r.result ELSE doc.RootObject,
     threw |-> r.js.threw,
     reports |-> r.js.reports]

\* Json::Parse without ErrorMessage.reset()
ParseKeepingError(doc, Input) ==
    ParseEnded(doc, ParseObject([Tokenizer |-> TokenizerInit(Input),
                                 CurrentToken |-> doc.CurrentToken,
                                 ErrorMessage |-> doc.ErrorMessage,
                                 threw |-> "none",
                                 reports |-> <<>>]))

\* Json::Parse on a document whose members are doc: Tokenizer.Init,
\* ErrorMessage.reset, then RootObject = ParseObject() unless an exception
\* left ParseObject, in which case RootObject keeps its value.
Parse(doc, Input) ==
    ParseEnded(doc, ParseObject([Tokenizer |-> TokenizerInit(Input),
                                 CurrentToken |-> doc.CurrentToken,
                                 ErrorMessage |-> NoError,
                                 threw |-> "none",
                                 reports |-> <<>>]))

\* ------------------------------------------------------------------------
\* class Json: the serializer
\* ------------------------------------------------------------------------
\* The order in which an unordered_map is iterated is unspecified, so the
\* serializing functions give the set of the texts the iteration orders can
\* produce.  Dereferencing a null std::shared_ptr is undefined behaviour: a
\* text with the element DerefNull stands for an execution that did so.

DerefNull == "*nullptr"

RECURSIVE Tabs(_)
\* std::string(n, '\t')
Tabs(n) == IF n <= 0 THEN <<>> ELSE <<"\t">> \o Tabs(n - 1)

\* Result += "\n"; Result += std::string(Depth, '\t'), in pretty mode only
Indent(bPretty, Depth) == IF bPretty THEN <<"\n">> \o Tabs(Depth) ELSE <<>>

IsContainer(Value) == Value.type \in {"Array", "Object"}

RECURSIVE SerializeValue(_, _, _), SerializeArray(_, _, _), SerializeObject(_, _, _)
RECURSIVE ArrayElements(_, _, _, _), ObjectProperties(_, _, _, _, _)

SerializeValue(Value, bPretty, Depth) ==
    CASE Value.type = "Int64" -> {IntToString(Value.v)}
      [] Value.type = "Float64" -> {FloatToString(Value.m, Value.e)}
      [] Value.type = "Null" -> {<<"n", "u", "l", "l">>}
      [] Value.type = "Bool" ->
           {IF Value.v THEN <<"t", "r", "u", "e">> ELSE <<"f", "a", "l", "s", "e">>}
      [] Value.type = "String" -> {<<"\"">> \o Value.v \o <<"\"">>}
      [] Value.type = "Array" ->
           IF Value.ptr.null THEN {<<DerefNull>>}
           ELSE SerializeArray(Value.ptr.obj, bPretty, Depth + 1)
      [] Value.type = "Object" ->
           IF Value.ptr.null THEN {<<DerefNull>>}
           ELSE SerializeObject(Value.ptr.obj, bPretty, Depth + 1)
      [] OTHER -> {<<>>}

\* The loop of SerializeArray from the element at index i (1-based) on.
ArrayElements(Values, i, bPretty, Depth) ==
    IF i > Len(Values) THEN {<<>>}
    ELSE { (IF i > 1 THEN <<",">> ELSE <<>>) \o Indent(bPretty, Depth + 1)
           \o ValueString \o rest :
             ValueString \in SerializeValue(Values[i], bPretty, Depth),
             rest \in ArrayElements(Values, i + 1, bPretty, Depth) }

SerializeArray(Array, bPretty, Depth) ==
    { <<"[">> \o elements
      \o (IF Len(Array.Values) > 0 THEN Indent(bPretty, Depth) ELSE <<>>)
      \o <<"]">> :
        elements \in ArrayElements(Array.Values, 1, bPretty, Depth) }

\* Separator of SerializeObject
Separator(Value, bPretty, Depth) ==
    IF bPretty /\ IsContainer(Value) THEN <<"\n">> \o Tabs(Depth + 1) ELSE <<" ">>

\* The loop of SerializeObject over the keys not yet written, in any order.
ObjectProperties(Properties, Remaining, Written, bPretty, Depth) ==
    IF Remaining = {} THEN {<<>>}
    ELSE UNION {
           { (IF Written > 0 THEN <<",">> ELSE <<>>) \o Indent(bPretty, Depth + 1)
             \o <<"\"">> \o Key \o <<"\"", ":">>
             \o Separator(Properties[Key], bPretty, Depth)
             \o ValueString \o rest :
               ValueString \in SerializeValue(Properties[Key], bPretty, Depth),
               rest \in ObjectProperties(Properties, Remaining \ {Key},
                                         Written + 1, bPretty, Depth) } :
           Key \in Remaining }

SerializeObject(Object, bPretty, Depth) ==
    { <<"{">> \o properties
      \o (IF DOMAIN Object.Properties # {} THEN Indent(bPretty, Depth) ELSE <<>>)
      \o <<"}">> :
        properties \in ObjectProperties(Object.Properties,
                                        DOMAIN Object.Properties, 0,
                                        bPretty, Depth) }

\* Json::Serialize
Serialize(Root, bPretty) ==
    IF Root.null THEN {<<>>} ELSE SerializeObject(Root.obj, bPretty, 0)

\* ------------------------------------------------------------------------
\* HasField
\* ------------------------------------------------------------------------

\* HasField<T>(JsonObject&, Key); T = "void" asks for presence only.
HasFieldObject(T, Object, Key) ==
    /\ Key \in DOMAIN Object.Properties
    /\ T # "void" => HasType(T, Object.Properties[Key])

\* HasField<T>(const JsonArray&, Index)
HasFieldArray(T, Array, Index) ==
    /\ Index < Len(Array.Values)
    /\ T # "void" => HasType(T, Array.Values[Index + 1])

\* HasField<T>(const Json&, Key)
HasField(T, Root, Key) ==
    /\ ~Root.null
    /\ HasFieldObject(T, Root.obj, Key)

\* ------------------------------------------------------------------------
\* JsonValueWrapper: the operations on the slot an accessor is bound to
\* ------------------------------------------------------------------------
\* Each gives the slot afterwards (Value), what the call returned (result),
\* the exception that left it (threw) and the arguments the callback was
\* invoked with, in order (calls).

\* What the operations that return *this return.
Self == [type |-> "*this"]

Outcome(Value, result, what, calls) ==
    [Value |-> Value, result |-> result, threw |-> what, calls |-> calls]

\* T{} for the alternative a typed read asks for
ValueInit(T) ==
    CASE TJsonValueTypeConverter(T) = "Int64" -> IntValue(0)
      [] TJsonValueTypeConverter(T) = "Float64" -> FloatValue(0, 0)
      [] TJsonValueTypeConverter(T) = "Bool" -> BoolValue(FALSE)
      [] TJsonValueTypeConverter(T) = "String" -> StringValue(<<>>)
      [] TJsonValueTypeConverter(T) = "Array" -> ArrayValue(NullPtr)
      [] TJsonValueTypeConverter(T) = "Object" -> ObjectValue(NullPtr)

\* Get_Internal<T>() requires(!bHasOr), writable binding
Get_Internal(Value, T) ==
    IF ~HasType(T, Value)
    THEN Outcome(ValueInit(T), ValueInit(T), "none", <<>>)
    ELSE Outcome(Value, Value, "none", <<>>)

\* Get_Internal<T>() requires(!bHasOr), read-only binding
Get_InternalConst(Value, T) ==
    IF ~HasType(T, Value)
    THEN Outcome(Value, Undefined, "runtime_error", <<>>)
    ELSE Outcome(Value, Value, "none", <<>>)

\* Get_Internal<T>() requires(bHasOr) with the two tests in the other order:
\* the default is preferred to the slot.
Get_InternalOrDefaultFirst(Value, DefaultValue, T) ==
    IF HasType(T, DefaultValue)
    THEN Outcome(Value, DefaultValue, "none", <<>>)
    ELSE IF HasType(T, Value) THEN Outcome(Value, Value, "none", <<>>)
    ELSE Outcome(Value, Undefined, "runtime_error", <<>>)

\* Get_Internal<T>() requires(bHasOr)
Get_InternalOr(Value, DefaultValue, T) ==
    IF ~HasType(T, Value)
    THEN IF ~HasType(T, DefaultValue)
         THEN Outcome(Value, Undefined, "runtime_error", <<>>)
         ELSE Outcome(Value, DefaultValue, "none", <<>>)
    ELSE Outcome(Value, Value, "none", <<>>)

\* operator JsonObject&() and operator JsonArray&() after Get_Internal
\* returned r: a null pointer is a std::runtime_error.
Dereferenced(r) ==
    IF r.threw = "none" /\ r.result.ptr.null
    THEN [r EXCEPT !.threw = "runtime_error", !.result = Undefined]
    ELSE r

\* operator TReturnType<JsonObject>() and operator TReturnType<JsonArray>()
\* of a writable binding without a default; T is "JsonObject" or "JsonArray".
ConvertToContainer(Value, T) == Dereferenced(Get_Internal(Value, T))

\* Then<T>(Func) with the test of Then<void>: the callback fires for every
\* slot that is not Undefined, whatever T.
ThenUntyped(Value, bHasOr, DefaultValue, T) ==
    IF Value.type # "Undefined" THEN Outcome(Value, Self, "none", <<Value>>)
    ELSE IF bHasOr /\ DefaultValue.type # "Undefined"
    THEN Outcome(Value, Self, "none", <<DefaultValue>>)
    ELSE Outcome(Value, Self, "none", <<>>)

\* Then<T>(Func), T not void; DefaultValue is Undefined for bHasOr = false
\* (the branch is not compiled then).
Then(Value, bHasOr, DefaultValue, T) ==
    IF HasType(T, Value) THEN Outcome(Value, Self, "none", <<Value>>)
    ELSE IF bHasOr /\ HasType(T, DefaultValue)
    THEN Outcome(Value, Self, "none", <<DefaultValue>>)
    ELSE Outcome(Value, Self, "none", <<>>)

\* Else(Func) looking at the slot alone, whatever the default.
ElseOfSlotOnly(Value, bHasOr, DefaultValue) ==
    Outcome(Value, Self, "none",
            IF Value.type = "Undefined" THEN <<Self>> ELSE <<>>)

\* Else(Func); the callback takes no argument: calls lists the accessor once
\* for each invocation.
Else(Value, bHasOr, DefaultValue) ==
    Outcome(Value, Self, "none",
            IF /\ HasType("UndefinedValue", Value)
               /\ bHasOr => HasType("UndefinedValue", DefaultValue)
            THEN <<Self>> ELSE <<>>)

\* operator=(T&&) for a scalar, a JsonObject&& or a JsonArray&&
Assign(Value, ValueIn) == Outcome(ValueIn, Self, "none", <<>>)

\* A reference to the container a non-null pointer points to.
Reference(ptr) == [type |-> "reference", obj |-> ptr.obj]

\* CreateObject() and CreateArray() of a writable binding without a
\* default; T is "JsonObject" or "JsonArray".  The slot is replaced by a new
\* container unless it holds the alternative T, and the pointer it then
\* holds is dereferenced.
CreateContainer(Value, T) ==
    IF ~HasType(T, Value)
    THEN Outcome([type |-> TJsonValueTypeConverter(T),
                  ptr |-> MakeShared(IF T = "JsonObject" THEN NewJsonObject
                                     ELSE NewJsonArray)],
                 Reference(MakeShared(IF T = "JsonObject" THEN NewJsonObject
                                      ELSE NewJsonArray)),
                 "none", <<>>)
    ELSE IF Value.ptr.null THEN Outcome(Value, Undefined, DerefNull, <<>>)
    ELSE Outcome(Value, Reference(Value.ptr), "none", <<>>)

\* A JsonValueWrapper bound to a slot that holds Value.
Accessor(Value) == [type |-> "accessor", Value |-> Value]

\* What JsonArray::operator[] and AddValue give: the array afterwards, the
\* accessor returned (Undefined when none is) and the exception.
Indexed(Array, result, what) ==
    [Array |-> Array, result |-> result, threw |-> what]

\* JsonArray::operator[] in the manner of JsonObject::operator[]: an index
\* beyond the end grows the array with default values and is bound.
SubscriptGrowing(Array, Index) ==
    IF Index >= Len(Array.Values)
    THEN Indexed([Values |-> [i \in 1..(Index + 1) |->
                                IF i <= Len(Array.Values) THEN Array.Values[i]
                                ELSE Undefined]],
                 Accessor(Undefined), "none")
    ELSE Indexed(Array, Accessor(Array.Values[Index + 1]), "none")

\* JsonArray::operator[](size_t Index), writable and const: Values.at(Index)
\* throws std::out_of_range unless Index < Values.size().
ArraySubscript(Array, Index) ==
    IF Index >= Len(Array.Values)
    THEN Indexed(Array, Undefined, "out_of_range")
    ELSE Indexed(Array, Accessor(Array.Values[Index + 1]), "none")

\* JsonArray::AddValue
AddValue(Array) ==
    Indexed([Values |-> Append(Array.Values, Undefined)],
            Accessor(Undefined), "none")

\* operator= through the accessor r bound to Values[Index]; nothing is
\* assigned when operator[] threw.
AssignedAt(r, Index, ValueIn) ==
    IF r.threw # "none" THEN r
    ELSE [r EXCEPT !.Array.Values[Index + 1] = ValueIn]

\* ------------------------------------------------------------------------
\* JsonInitValue and the construction from lists
\* ------------------------------------------------------------------------

\* std::optional<std::string> Key
NoKey == [has |-> FALSE]
SomeKey(k) == [has |-> TRUE, v |-> k]

\* JsonInitValue(InitValue) and JsonInitValue(KeyIn, InitValue); List is the
\* list the entry was written with (none here), kept for the properties.
InitValue(Key, Value) == [Key |-> Key, Value |-> Value, List |-> <<>>]

RECURSIVE EmplaceKeyed(_, _, _)
\* The loop of InitFromList for an object, from entry i on: each keyed
\* entry is emplaced, each other entry skipped.
EmplaceKeyed(List, i, Properties) ==
    IF i > Len(List) THEN Properties
    ELSE IF ~List[i].Key.has THEN EmplaceKeyed(List, i + 1, Properties)
    ELSE EmplaceKeyed(List, i + 1,
                      Emplace(Properties, List[i].Key.v, List[i].Value))

RECURSIVE PushUnkeyed(_, _, _)
\* The loop of InitFromList for an array, from entry i on: each entry
\* without a key is pushed back, each keyed entry skipped.
PushUnkeyed(List, i, Values) ==
    IF i > Len(List) THEN Values
    ELSE IF List[i].Key.has THEN PushUnkeyed(List, i + 1, Values)
    ELSE PushUnkeyed(List, i + 1, Append(Values, List[i].Value))

\* InitFromList taking the list for an object when any entry has a key.
InitFromListByAnyKey(List, bObjectOnly) ==
    IF Len(List) < 1 THEN Undefined
    ELSE IF \E i \in 1..Len(List) : List[i].Key.has
    THEN ObjectValue(MakeShared([Properties |-> EmplaceKeyed(List, 1, EmptyMap)]))
    ELSE IF ~bObjectOnly
    THEN ArrayValue(MakeShared([Values |-> PushUnkeyed(List, 1, <<>>)]))
    ELSE Undefined

\* JsonInitValue::InitFromList
InitFromList(List, bObjectOnly) ==
    IF Len(List) < 1 THEN Undefined
    ELSE IF List[1].Key.has
    THEN ObjectValue(MakeShared([Properties |-> EmplaceKeyed(List, 1, EmptyMap)]))
    ELSE IF ~bObjectOnly
    THEN ArrayValue(MakeShared([Values |-> PushUnkeyed(List, 1, <<>>)]))
    ELSE Undefined

\* JsonInitValue(TJsonInitList&&) and JsonInitValue(KeyIn, const
\* TJsonInitList&): a nested list.
InitNested(Key, List) ==
    [Key |-> Key, Value |-> InitFromList(List, FALSE), List |-> List]

\* JsonObject::InitFromList once JsonInitValue::InitFromList has given
\* Value: the object takes the properties of a non-null object.
ObjectTaking(Object, Value) ==
    IF Value.type = "Object" /\ ~Value.ptr.null
    THEN [Properties |-> Value.ptr.obj.Properties]
    ELSE Object

\* JsonObject(List) and JsonObject::operator=(List)
ObjectInitFromList(Object, List) ==
    ObjectTaking(Object, InitFromList(List, TRUE))

\* JsonArray::InitFromList once JsonInitValue::InitFromList has given Value
ArrayTaking(Array, Value) ==
    IF Value.type = "Array" /\ ~Value.ptr.null
    THEN [Values |-> Value.ptr.obj.Values]
    ELSE Array

\* JsonArray(List) and JsonArray::operator=(List)
ArrayInitFromList(Array, List) ==
    ArrayTaking(Array, InitFromList(List, FALSE))

\* Json::InitFromList, for Json(List) and Json::operator=(List): the root
\* afterwards.
JsonInitFromList(Root, List) ==
    MakeShared(ObjectInitFromList(
        (IF Root.null THEN MakeShared(NewJsonObject) ELSE Root).obj, List))

\* JsonValueWrapper::operator=(TJsonInitList)
AssignList(Value, List) ==
    Outcome(InitFromList(List, FALSE), Self, "none", <<>>)

\* ------------------------------------------------------------------------
\* State
\* ------------------------------------------------------------------------

VARIABLES
    Tokenizer,      \* Json::Tokenizer {Input, Position, CurrentToken}
    CurrentToken,   \* Json::CurrentToken
    ErrorMessage,   \* Json::ErrorMessage
    RootObject,     \* Json::RootObject
    threw,          \* the exception that left the last operation, or "none"
    reports,        \* the calls of ThrowError made by the last Parse
    input,          \* the text the caller is about to hand to Parse
    ret             \* the last operation and what it returned

vars == <<Tokenizer, CurrentToken, ErrorMessage, RootObject, threw, reports,
          input, ret>>

\* The members of the document, as the record the operations take.
Doc ==
    [Tokenizer |-> Tokenizer, CurrentToken |-> CurrentToken,
     ErrorMessage |-> ErrorMessage, RootObject |-> RootObject]

\* Json::HasError
HasError == ErrorMessage.has

\* Json::GetError: the text std::format built, as its pieces, or "".
GetErrorOf(Error) ==
    IF Error.has
    THEN <<"Error at position ", Error.Position, "[", Error.Value, "]: ",
           Error.ErrorLocation, " \nError Reason: ", Error.message>>
    ELSE <<>>

GetError == GetErrorOf(ErrorMessage)

\* Json::Json(): default members and a new root object.
Constructed ==
    /\ Tokenizer = TokenizerInit(<<>>)
    /\ CurrentToken = InvalidToken
    /\ ErrorMessage = NoError
    /\ RootObject = MakeShared(NewJsonObject)
    /\ threw = "none"
    /\ reports = <<>>
    /\ ret = [op |-> "Json"]

\* The members and the observers take the values of the record r.
Becomes(r) ==
    /\ Tokenizer' = r.Tokenizer
    /\ CurrentToken' = r.CurrentToken
    /\ ErrorMessage' = r.ErrorMessage
    /\ RootObject' = r.RootObject
    /\ threw' = r.threw
    /\ reports' = r.reports

\* A call of Json::Parse(text).
ParseInto(text) ==
    /\ Becomes(Parse(Doc, text))
    /\ ret' = [op |-> "Parse"]

\* ------------------------------------------------------------------------
\* Spec: a document under Parse, Reset, the accessors and Serialize
\* ------------------------------------------------------------------------

Keys == {<<"a">>, <<"b">>}

\* The values the caller assigns: two scalars and two empty containers
\* (a JsonObject and a JsonArray moved in).
Scalars == {IntValue(5), StringValue(<<"s">>)}

AssignValues ==
    Scalars \cup {ObjectValue(MakeShared(NewJsonObject)),
                  ArrayValue(MakeShared(NewJsonArray))}

\* The defaults given to Or
OrValues == {IntValue(7), StringValue(<<"d">>)}

\* The type parameters of the typed reads and of Then
ReadTypes == {"int", "JsonObject", "JsonArray"}

ContainerTypes == {"JsonObject", "JsonArray"}

\* The texts handed to Parse: {}, {"a":1}, {"a": }, {"a":-} and
\* {"b":[1],"a":"s"}
ParseInputs ==
    { <<"{", "}">>,
      <<"{">> \o Quoted("a") \o <<":", "1", "}">>,
      <<"{">> \o Quoted("a") \o <<":", " ", "}">>,
      <<"{">> \o Quoted("a") \o <<":", "-", "}">>,
      <<"{">> \o Quoted("b") \o <<":", "[", "1", "]", ",">> \o Quoted("a")
        \o <<":">> \o Quoted("s") \o <<"}">> }

\* Json::operator[]: the root after if(!RootObject) RootObject = make_shared
RootOf(Root) == IF Root.null THEN MakeShared(NewJsonObject) ELSE Root

\* Json::operator[]: the slot RootObject->Properties[Key] refers to.
SlotOf(Root, Key) == Subscript(RootOf(Root).obj.Properties, Key)[Key]

\* The root once the slot Json::operator[] bound holds Value.
WithSlot(Root, Key, Value) ==
    MakeShared([Properties |-> Store(RootOf(Root).obj.Properties, Key, Value)])

\* The last operation, for the properties: its name, the key and the type
\* parameter it was given, the default of Or, the slot before it acted (as
\* the accessor found it) and what it returned.
Returned(op, Key, T, DefaultValue, o, before) ==
    [op |-> op, Key |-> Key, T |-> T, DefaultValue |-> DefaultValue,
     before |-> before, result |-> o.result, calls |-> o.calls]

\* An accessor operation on doc[Key] with the outcome o.
Accessed(op, Key, T, DefaultValue, o) ==
    /\ RootObject' = WithSlot(RootObject, Key, o.Value)
    /\ threw' = o.threw
    /\ ret' = Returned(op, Key, T, DefaultValue, o, SlotOf(RootObject, Key))
    /\ UNCHANGED <<Tokenizer, CurrentToken, ErrorMessage, reports, input>>

\* Program termination by undefined behaviour: nothing follows.
Running == threw # DerefNull

Init ==
    /\ Constructed
    /\ input = <<>>

\* doc.Parse(text)
DoParse ==
    \E text \in ParseInputs :
        /\ Running
        /\ ParseInto(text)
        /\ UNCHANGED input

\* Json::Reset without Properties.clear(): an existing root keeps its
\* properties.
ResetRootKeepingProperties(Root, bCreateRoot) ==
    IF bCreateRoot /\ Root.null THEN MakeShared(NewJsonObject) ELSE Root

\* Json::Reset: the root after the call
ResetRoot(Root, bCreateRoot) ==
    IF bCreateRoot THEN MakeShared(NewJsonObject) ELSE Root

\* doc.Reset(bCreateRoot)
DoReset ==
    \E bCreateRoot \in BOOLEAN :
        /\ Running
        /\ RootObject' = ResetRoot(RootObject, bCreateRoot)
        /\ Tokenizer' = TokenizerInit(<<>>)
        /\ ErrorMessage' = NoError
        /\ CurrentToken' = InvalidToken
        /\ threw' = "none"
        /\ ret' = [op |-> "Reset", bCreateRoot |-> bCreateRoot,
                   made |-> bCreateRoot /\ RootObject.null]
        /\ UNCHANGED <<reports, input>>

\* doc[Key] = ValueIn
DoAssign ==
    \E Key \in Keys, ValueIn \in AssignValues :
        /\ Running
        /\ Accessed("Assign", Key, "void", Undefined,
                    Assign(SlotOf(RootObject, Key), ValueIn))

\* doc[Key].GetAs<T>()
DoGetAs ==
    \E Key \in Keys, T \in ReadTypes :
        /\ Running
        /\ Accessed("GetAs", Key, T, Undefined,
                    Get_Internal(SlotOf(RootObject, Key), T))

\* JsonObject& o = doc[Key];  JsonArray& a = doc[Key];
DoConvert ==
    \E Key \in Keys, T \in ContainerTypes :
        /\ Running
        /\ Accessed("Convert", Key, T, Undefined,
                    ConvertToContainer(SlotOf(RootObject, Key), T))

\* doc[Key].Or(d).GetAs<T>()
DoOrGetAs ==
    \E Key \in Keys, d \in OrValues, T \in ReadTypes :
        /\ Running
        /\ Accessed("OrGetAs", Key, T, d,
                    Get_InternalOr(SlotOf(RootObject, Key), d, T))

\* doc[Key].Then<T>(Func)
DoThen ==
    \E Key \in Keys, T \in ReadTypes :
        /\ Running
        /\ Accessed("Then", Key, T, Undefined,
                    Then(SlotOf(RootObject, Key), FALSE, Undefined, T))

\* doc[Key].Or(d).Then<T>(Func)
DoOrThen ==
    \E Key \in Keys, d \in OrValues, T \in ReadTypes :
        /\ Running
        /\ Accessed("OrThen", Key, T, d,
                    Then(SlotOf(RootObject, Key), TRUE, d, T))

\* doc[Key].CreateObject();  doc[Key].CreateArray();
DoCreate ==
    \E Key \in Keys, T \in ContainerTypes :
        /\ Running
        /\ Accessed("Create", Key, T, Undefined,
                    CreateContainer(SlotOf(RootObject, Key), T))

\* The last operation of a chain x.Then<T>(f).Else(g): what Then invoked
\* (calls) and what Else invoked (elseCalls).
Chained(op, Key, T, DefaultValue, before, then, else) ==
    [op |-> op, Key |-> Key, T |-> T, DefaultValue |-> DefaultValue,
     before |-> before, result |-> else.result, calls |-> then.calls,
     elseCalls |-> else.calls]

\* A chain on doc[Key]: Else acts on the slot as Then left it.
AccessedChain(op, Key, T, bHasOr, DefaultValue, then) ==
    /\ RootObject' = WithSlot(RootObject, Key,
                              Else(then.Value, bHasOr, DefaultValue).Value)
    /\ threw' = "none"
    /\ ret' = Chained(op, Key, T, DefaultValue, SlotOf(RootObject, Key), then,
                      Else(then.Value, bHasOr, DefaultValue))
    /\ UNCHANGED <<Tokenizer, CurrentToken, ErrorMessage, reports, input>>

\* doc[Key].Then<T>(f).Else(g)
DoThenElse ==
    \E Key \in Keys, T \in ReadTypes :
        /\ Running
        /\ AccessedChain("ThenElse", Key, T, FALSE, Undefined,
                         Then(SlotOf(RootObject, Key), FALSE, Undefined, T))

\* doc[Key].Or(d).Then<T>(f).Else(g)
DoOrThenElse ==
    \E Key \in Keys, d \in OrValues \cup {Undefined}, T \in ReadTypes :
        /\ Running
        /\ AccessedChain("OrThenElse", Key, T, TRUE, d,
                         Then(SlotOf(RootObject, Key), TRUE, d, T))

\* doc.Serialize(bPretty)
DoSerialize ==
    \E bPretty \in BOOLEAN :
        \E text \in Serialize(RootObject, bPretty) :
            /\ Running
            /\ threw' = IF \E i \in 1..Len(text) : text[i] = DerefNull
                        THEN DerefNull ELSE "none"
            /\ ret' = [op |-> "Serialize", bPretty |-> bPretty, text |-> text]
            /\ UNCHANGED <<Tokenizer, CurrentToken, ErrorMessage, RootObject,
                           reports, input>>

Next ==
    \/ DoParse
    \/ DoReset
    \/ DoAssign
    \/ DoGetAs
    \/ DoConvert
    \/ DoOrGetAs
    \/ DoThen
    \/ DoOrThen
    \/ DoCreate
    \/ DoThenElse
    \/ DoOrThenElse
    \/ DoSerialize

Spec == Init /\ [][Next]_vars

\* ------------------------------------------------------------------------
\* SpecParse: Parse applied to each text of a bounded set
\* ------------------------------------------------------------------------

\* The pieces the input texts are built from.

Lexemes ==
    { <<"{">>, <<"}">>, <<"[">>, <<"]">>, <<",">>, <<":">>, <<" ">>,
      Quoted("a"), <<"1">>, <<"-">>, <<"e">>, <<"1", "E", "5">>,
      <<"1", ".", "5">>, <<"t", "r", "u", "e">>, <<"n", "u", "l", "l">>,
      <<"x">> }

\* What the texts start with: nothing, an object up to the value of its
\* first or of its second property, an object up to the first array element.
Prefixes ==
    { <<>>,
      <<"{">> \o Quoted("a") \o <<":">>,
      <<"{">> \o Quoted("a") \o <<":", "1", ",">> \o Quoted("a") \o <<":">>,
      <<"{">> \o Quoted("b") \o <<":", "[">> }

\* The number of lexemes that follow the prefix.
MaxTail == 3

RECURSIVE Tails(_)
Tails(n) ==
    IF n = 0 THEN {<<>>}
    ELSE LET shorter == Tails(n - 1)
         IN  shorter \cup {l \o t : l \in Lexemes, t \in shorter}

Texts == {p \o t : p \in Prefixes, t \in Tails(MaxTail)}

InitParse ==
    /\ Constructed
    /\ input \in Texts

ParseInput ==
    /\ ret.op = "Json"
    /\ ParseInto(input)
    /\ UNCHANGED input

NextParse == ParseInput

SpecParse == InitParse /\ [][NextParse]_vars

\* ------------------------------------------------------------------------
\* Properties of Parse (SpecParse)
\* ------------------------------------------------------------------------

\* The text before the value of the first property in the texts of SpecParse.
ValuePrefix == <<"{">> \o Quoted("a") \o <<":">>

\* The input is {"a":n} for a text n.
IsSingleValueInput == 
    /\ Len(input) > Len(ValuePrefix) + 1
    /\ SubSeq(input, 1, Len(ValuePrefix)) = ValuePrefix
    /\ input[Len(input)] = "}"

\* The text n of the input {"a":n}.
SingleValue == SubSeq(input, Len(ValuePrefix) + 1, Len(input) - 1)

\* The input is {"a":n} where the tokenizer takes n as one Number token.
IsSingleNumberInput ==
    /\ IsSingleValueInput
    /\ \A i \in 1..Len(SingleValue) : IsValidNumberChar(SingleValue[i])

\* The grammar of a JSON number (RFC 8259): -? int frac? exp?.  Each step
\* gives the index after the part it read, or 0 when the text is malformed.
JsonIntEnd(n) ==
    IF DigitRun(n, IF CharAt(n, 1) = "-" THEN 2 ELSE 1) = 0 THEN 0
    ELSE IF CharAt(n, IF CharAt(n, 1) = "-" THEN 2 ELSE 1) = "0"
            /\ DigitRun(n, IF CharAt(n, 1) = "-" THEN 2 ELSE 1) > 1 THEN 0
    ELSE (IF CharAt(n, 1) = "-" THEN 2 ELSE 1)
         + DigitRun(n, IF CharAt(n, 1) = "-" THEN 2 ELSE 1)

JsonFracEnd(n, i) ==
    IF i = 0 THEN 0
    ELSE IF CharAt(n, i) # "." THEN i
    ELSE IF DigitRun(n, i + 1) = 0 THEN 0
    ELSE i + 1 + DigitRun(n, i + 1)

JsonExpDigits(n, k) == IF DigitRun(n, k) = 0 THEN 0 ELSE k + DigitRun(n, k)

JsonExpEnd(n, i) ==
    IF i = 0 THEN 0
    ELSE IF CharAt(n, i) \notin {"e", "E"} THEN i
    ELSE JsonExpDigits(n, IF CharAt(n, i + 1) \in {"+", "-"} THEN i + 2 ELSE i + 1)

IsJsonNumber(n) == JsonExpEnd(n, JsonFracEnd(n, JsonIntEnd(n))) = Len(n) + 1

\* C1: whenever the value of a property is a number token that is not
\* well-formed numeric text, Parse returns normally (no exception leaves it)
\* and HasError() is true.
C1_MalformedNumberIsParseError ==
    (ret.op = "Parse" /\ IsSingleNumberInput /\ ~IsJsonNumber(SingleValue))
        => (threw = "none" /\ HasError)

\* C2: after Parse, the error the document holds is the one of the first
\* call of ThrowError (its token and its reason), however many calls
\* followed; without a call there is no error.
C2_FirstErrorIsKept ==
    ret.op = "Parse" =>
        /\ HasError <=> reports # <<>>
        /\ HasError =>
             /\ ErrorMessage.message = reports[1].message
             /\ ErrorMessage.Position = reports[1].tok.Position
             /\ ErrorMessage.Value = reports[1].tok.Value

\* C2 witness: an invalid token in value position was reported as "Invalid
\* token", a second report followed, and the first reason is the one kept.
C2_Witness ==
    /\ ret.op = "Parse"
    /\ Len(reports) = 2
    /\ reports[1].message = "Invalid token"
    /\ reports[2].message = "Unexpected token while parsing value"
    /\ ErrorMessage.message = "Invalid token"

\* C7: a number token becomes a Float64 exactly when its text contains
\* '.', 'e' or 'E', and an Int64 otherwise.
C7_FloatIffDotOrExponent ==
    (ret.op = "Parse" /\ IsSingleNumberInput /\ threw = "none" /\ ~HasError)
        => /\ RootObject.obj.Properties[<<"a">>].type \in {"Int64", "Float64"}
           /\ RootObject.obj.Properties[<<"a">>].type = "Float64"
                <=> \E i \in 1..Len(SingleValue) :
                        SingleValue[i] \in {".", "e", "E"}

\* C6: when the same key is written twice into one object, the object ends
\* with one entry for it that holds the last value written.  For parsed
\* text: {"a":1,"a":v} gives the document that {"a":v} gives.
DuplicatePrefix == <<"{">> \o Quoted("a") \o <<":", "1", ",">> \o Quoted("a") \o <<":">>

IsDuplicateKeyInput ==
    /\ Len(input) > Len(DuplicatePrefix)
    /\ SubSeq(input, 1, Len(DuplicatePrefix)) = DuplicatePrefix

C6_LastWriteWins ==
    (ret.op = "Parse" /\ IsDuplicateKeyInput /\ threw = "none" /\ ~HasError)
        => RootObject =
             Parse(Doc, ValuePrefix
                        \o SubSeq(input, Len(DuplicatePrefix) + 1, Len(input))
                  ).RootObject

\* ------------------------------------------------------------------------
\* Properties of the document and its accessors (Spec)
\* ------------------------------------------------------------------------

KeyedOps ==
    {"Assign", "GetAs", "Convert", "OrGetAs", "Then", "OrThen", "Create",
     "ThenElse", "OrThenElse"}

C4_DefaultedReadLeavesDocument ==
    [][ (ret'.op = "OrGetAs" /\ ~HasField("void", RootObject, ret'.Key))
            => /\ ~HasField("void", RootObject', ret'.Key)
               /\ Serialize(RootObject', FALSE) = Serialize(RootObject, FALSE)
      ]_vars

\* C5: a typed read through a defaulted accessor returns the slot when the
\* slot holds T, else the default when the default holds T, else fails; so
\* Or(7).GetAs<int>() is 7 on an absent key and 5 on a key set to 5.
C5_DefaultedRead ==
    ret.op = "OrGetAs" =>
        /\ HasType(ret.T, ret.before)
            => (threw = "none" /\ ret.result = ret.before)
        /\ (~HasType(ret.T, ret.before) /\ HasType(ret.T, ret.DefaultValue))
            => (threw = "none" /\ ret.result = ret.DefaultValue)
        /\ (~HasType(ret.T, ret.before) /\ ~HasType(ret.T, ret.DefaultValue))
            => threw = "runtime_error"
        /\ (ret.T = "int" /\ ret.DefaultValue = IntValue(7))
            => /\ ret.before = Undefined => ret.result = IntValue(7)
               /\ ret.before = IntValue(5) => ret.result = IntValue(5)

\* C5 witness: Or(7).GetAs<int>() was read on a key holding 5 and gave 5.
C5_Witness ==
    /\ ret.op = "OrGetAs"
    /\ ret.T = "int"
    /\ ret.DefaultValue = IntValue(7)
    /\ ret.before = IntValue(5)
    /\ ret.result = IntValue(5)

\* C9: a typed read of type T through a plain writable accessor whose slot
\* does not hold T replaces the slot by an empty value of type T and returns
\* it; for Object and Array the slot then holds an empty container.
C9_TypedReadResetsSlot ==
    (ret.op \in {"GetAs", "Convert"} /\ ~HasType(ret.T, ret.before))
        => /\ threw = "none"
           /\ HasType(ret.T, SlotOf(RootObject, ret.Key))
           /\ ret.T \in ContainerTypes
                => /\ ~SlotOf(RootObject, ret.Key).ptr.null
                   /\ ret.T = "JsonObject"
                        => SlotOf(RootObject, ret.Key).ptr.obj = NewJsonObject
                   /\ ret.T = "JsonArray"
                        => SlotOf(RootObject, ret.Key).ptr.obj = NewJsonArray

\* C10: Then<T> invokes the callback once with the slot when the slot holds
\* T, else (on a defaulted accessor) once with the default when the default
\* holds T, else not at all; int selects the Int64 alternative; Then returns
\* the accessor and leaves the slot as the accessor found it.
C10_ThenFiresOnTypeMatch ==
    ret.op \in {"Then", "OrThen"} =>
        /\ threw = "none"
        /\ ret.result = Self
        /\ SlotOf(RootObject, ret.Key) = ret.before
        /\ HasType(ret.T, ret.before) => ret.calls = <<ret.before>>
        /\ (~HasType(ret.T, ret.before) /\ ret.op = "OrThen"
              /\ HasType(ret.T, ret.DefaultValue))
            => ret.calls = <<ret.DefaultValue>>
        /\ (~HasType(ret.T, ret.before)
              /\ (ret.op = "Then" \/ ~HasType(ret.T, ret.DefaultValue)))
            => ret.calls = <<>>
        /\ (ret.T = "int" /\ ret.before.type = "Int64")
            => ret.calls = <<ret.before>>

\* C10 witness: Then<int> on a defaulted accessor whose slot holds a string
\* and whose default is 7 has invoked the callback with 7.
C10_Witness ==
    /\ ret.op = "OrThen"
    /\ ret.T = "int"
    /\ ret.before.type = "String"
    /\ ret.calls = <<IntValue(7)>>

\* C11: in x.Then<T>(f).Else(g), g is invoked (once) exactly when the slot
\* is Undefined and, on a defaulted accessor, the default is Undefined too;
\* f and g are never both invoked.
C11_ElseFiresOnUndefined ==
    ret.op \in {"ThenElse", "OrThenElse"} =>
        /\ threw = "none"
        /\ ret.result = Self
        /\ Len(ret.elseCalls) \in {0, 1}
        /\ Len(ret.elseCalls) = 1
            <=> /\ ret.before = Undefined
                /\ ret.op = "OrThenElse" => ret.DefaultValue = Undefined
        /\ ~(ret.calls # <<>> /\ ret.elseCalls # <<>>)

\* C11 witness: on a defaulted accessor whose slot and default are both
\* Undefined, Then<int> invoked nothing and Else invoked its callback.
C11_Witness ==
    /\ ret.op = "OrThenElse"
    /\ ret.T = "int"
    /\ ret.before = Undefined
    /\ ret.DefaultValue = Undefined
    /\ ret.calls = <<>>
    /\ Len(ret.elseCalls) = 1

\* C12: after CreateObject (CreateArray) the slot holds an Object (Array) and
\* the call returns its container; a slot that already held one is left as
\* it was, contents included, so that a second call returns the container
\* the first returned; any other slot is replaced by a new empty container.
C12_CreateIsIdempotent ==
    ret.op = "Create" =>
        /\ threw = "none"
        /\ HasType(ret.T, SlotOf(RootObject, ret.Key))
        /\ ~SlotOf(RootObject, ret.Key).ptr.null
        /\ ret.result = Reference(SlotOf(RootObject, ret.Key).ptr)
        /\ HasType(ret.T, ret.before)
            => SlotOf(RootObject, ret.Key) = ret.before
        /\ ~HasType(ret.T, ret.before)
            => SlotOf(RootObject, ret.Key).ptr.obj =
                 (IF ret.T = "JsonObject" THEN NewJsonObject ELSE NewJsonArray)

\* C13: Reset(true) leaves an empty root object and no error (HasError()
\* false, GetError() empty), whatever the state before; it makes a new root
\* container only when there was none.
C13_ResetLeavesEmptyRoot ==
    [][ (ret'.op = "Reset" /\ ret'.bCreateRoot)
            => /\ threw' = "none"
               /\ ~RootObject'.null
               /\ RootObject'.obj = NewJsonObject
               /\ ~ErrorMessage'.has
               /\ GetErrorOf(ErrorMessage') = <<>>
               /\ ret'.made <=> RootObject.null ]_vars

\* C13 witness: Reset(true) has acted on a document that a Parse ending in
\* error had left without a root, and has made a new one.
C13_Witness ==
    /\ ret.op = "Reset"
    /\ ret.bCreateRoot
    /\ ret.made
    /\ reports # <<>>
    /\ RootObject = MakeShared(NewJsonObject)
    /\ GetError = <<>>

\* The members of a document just constructed.
FreshDoc ==
    [Tokenizer |-> TokenizerInit(<<>>), CurrentToken |-> InvalidToken,
     ErrorMessage |-> NoError, RootObject |-> MakeShared(NewJsonObject)]

\* The text {"a": }
ValueMissing == <<"{">> \o Quoted("a") \o <<":", " ", "}">>

\* C14: after Parse(t), HasError(), GetError() and the exception that left
\* the call are those Parse(t) gives on a document just constructed,
\* whatever the document went through before; for {"a": } the error is set
\* and its reason is "Unexpected token while parsing value".
C14_ParseDependsOnInputOnly ==
    ret.op = "Parse" =>
        /\ HasError = Parse(FreshDoc, Tokenizer.Input).ErrorMessage.has
        /\ GetError = GetErrorOf(Parse(FreshDoc, Tokenizer.Input).ErrorMessage)
        /\ threw = Parse(FreshDoc, Tokenizer.Input).threw
        /\ Tokenizer.Input = ValueMissing
            => /\ HasError
               /\ ErrorMessage.message = "Unexpected token while parsing value"

\* C14 witness: on a document that a Parse ending in error had left without
\* a root, Parse of {"a":-} has cleared that error before std::stoll threw,
\* and the root is still absent.
C14_Witness ==
    /\ ret.op = "Parse"
    /\ threw = "invalid_argument"
    /\ RootObject.null
    /\ ~HasError
    /\ GetError = <<>>

RECURSIVE HasSpaceOutsideStrings(_, _, _)
\* Some character of text from index i on is whitespace and lies outside
\* the quoted parts (the keys and string values of Spec hold no quote).
HasSpaceOutsideStrings(text, i, bInString) ==
    IF i > Len(text) THEN FALSE
    ELSE IF text[i] = "\"" THEN HasSpaceOutsideStrings(text, i + 1, ~bInString)
    ELSE IF ~bInString /\ IsSpace(text[i]) THEN TRUE
    ELSE HasSpaceOutsideStrings(text, i + 1, bInString)

\* C15: the text Serialize(false) returns holds no whitespace outside its
\* keys and string values.
C15_CompactHasNoWhitespace ==
    (ret.op = "Serialize" /\ ~ret.bPretty /\ threw = "none")
        => ~HasSpaceOutsideStrings(ret.text, 1, FALSE)

\* ------------------------------------------------------------------------
\* SpecRT: a tree built by the caller, serialized compactly and parsed back
\* ------------------------------------------------------------------------

MaxArray == 2

\* The scalars of the trees, with the slots a caller can leave behind: an
\* Undefined placeholder and a container alternative holding a null pointer.
RTScalars ==
    {NullValue, BoolValue(TRUE), IntValue(0), IntValue(0 - 12),
     FloatValue(15, 0 - 1), FloatValue(0 - 25, 0 - 1), FloatValue(1, 0 - 7),
     StringValue(<<>>), StringValue(<<"s">>), StringValue(<<"\\">>),
     StringValue(<<"\"">>), Undefined, ObjectValue(NullPtr)}

RTArrays ==
    {ArrayValue(MakeShared([Values |-> s])) :
        s \in UNION {[1..n -> RTScalars] : n \in 0..MaxArray}}

RTObjects ==
    {ObjectValue(MakeShared([Properties |-> m])) :
        m \in UNION {[S -> RTScalars] : S \in SUBSET {<<"a">>}}}

\* The values each key of the root may hold.
RTValuesOf(Key) ==
    CASE Key = <<"a">> -> RTScalars \cup RTArrays \cup RTObjects
      [] Key = <<"b">> -> {IntValue(0), StringValue(<<"s">>)}
      [] OTHER -> {NullValue}

\* A key the caller has not written.
Absent == [type |-> "absent"]

\* The values a key may hold, or none.
RTChoices(Key) == {Absent} \cup RTValuesOf(Key)

\* The map after the caller's write of a choice.
Written(map, Key, choice) ==
    IF choice = Absent THEN map ELSE Store(map, Key, choice)

RTRoots ==
    {MakeShared([Properties |->
        Written(Written(Written(EmptyMap, <<"a">>, a), <<"b">>, b), <<"\\">>, c)]) :
        a \in RTChoices(<<"a">>), b \in RTChoices(<<"b">>),
        c \in RTChoices(<<"\\">>)}

InitRT ==
    /\ Tokenizer = TokenizerInit(<<>>)
    /\ CurrentToken = InvalidToken
    /\ ErrorMessage = NoError
    /\ RootObject \in RTRoots
    /\ threw = "none"
    /\ reports = <<>>
    /\ input = <<>>
    /\ ret = [op |-> "Tree"]

\* text = Serialize(false), in one of the orders the map may iterate in.
SerializeTree ==
    /\ ret.op = "Tree"
    /\ \E text \in Serialize(RootObject, FALSE) :
        /\ input' = text
        /\ threw' = IF \E i \in 1..Len(text) : text[i] = DerefNull
                    THEN DerefNull ELSE "none"
    /\ ret' = [op |-> "Serialize", before |-> RootObject]
    /\ UNCHANGED <<Tokenizer, CurrentToken, ErrorMessage, RootObject, reports>>

\* Parse(text)
ParseText ==
    /\ ret.op = "Serialize"
    /\ threw = "none"
    /\ Becomes(Parse(Doc, input))
    /\ ret' = [op |-> "RoundTrip", before |-> ret.before]
    /\ UNCHANGED input

NextRT ==
    \/ SerializeTree
    \/ ParseText

SpecRT == InitRT /\ [][NextRT]_vars

\* ------------------------------------------------------------------------
\* Properties of the round trip (SpecRT)
\* ------------------------------------------------------------------------

RECURSIVE Reachable(_)
\* The values of a tree: the value and all values below it.
Reachable(Value) ==
    {Value} \cup
    (IF Value.type = "Array" /\ ~Value.ptr.null
     THEN UNION {Reachable(Value.ptr.obj.Values[i]) :
                    i \in 1..Len(Value.ptr.obj.Values)}
     ELSE IF Value.type = "Object" /\ ~Value.ptr.null
     THEN UNION {Reachable(Value.ptr.obj.Properties[k]) :
                    k \in DOMAIN Value.ptr.obj.Properties}
     ELSE {})

\* The texts of a tree: its string values and its keys.
TextsOf(Value) ==
    {v.v : v \in {w \in Reachable(Value) : w.type = "String"}}
    \cup UNION {DOMAIN v.ptr.obj.Properties :
                  v \in {w \in Reachable(Value) :
                            w.type = "Object" /\ ~w.ptr.null}}

ControlChars == {NUL, "\n", "\t", "\r", "\f"}

NoneOf(Value, chars) ==
    \A s \in TextsOf(Value) : \A i \in 1..Len(s) : s[i] \notin chars

\* Every Array and Object alternative refers to a container.
IsValueTree(Value) ==
    \A v \in Reachable(Value) : v.type \in {"Array", "Object"} => ~v.ptr.null

\* No slot is an Undefined placeholder and every Float64 has at most the six
\* decimals std::to_string writes.
IsPlainTree(Value) ==
    \A v \in Reachable(Value) :
        /\ v.type # "Undefined"
        /\ v.type = "Float64" => v.e >= 0 - FloatPrecision

RoundTripped ==
    /\ threw = "none"
    /\ ~HasError
    /\ RootObject = ret.before

DefinedTypes ==
    {"Null", "Bool", "Int64", "Float64", "String", "Array", "Object"}

\* C18: after a Parse that ends without error the document has a root, and
\* no value of the tree, at any depth, is Undefined; every Array and Object
\* of it refers to a container.
C18_NoUndefinedAfterParse ==
    (ret.op = "Parse" /\ threw = "none" /\ ~HasError)
        => /\ ~RootObject.null
           /\ \A v \in Reachable(ObjectValue(RootObject)) :
                 /\ v.type \in DefinedTypes
                 /\ v.type \in {"Array", "Object"} => ~v.ptr.null

\* C18 witness: {"b":[null]} was parsed without error, a tree of depth two.
C18_Witness ==
    /\ ret.op = "Parse"
    /\ threw = "none"
    /\ ~HasError
    /\ ~RootObject.null
    /\ DOMAIN RootObject.obj.Properties = {<<"b">>}
    /\ RootObject.obj.Properties[<<"b">>] =
          ArrayValue(MakeShared([Values |-> <<NullValue>>]))

\* ------------------------------------------------------------------------
\* SpecArray: an array of the document under AddValue, operator[], HasField
\* ------------------------------------------------------------------------

\* The array auto& Arr = doc["a"].CreateArray() refers to.
Arr == RootObject.obj.Properties[<<"a">>].ptr.obj

\* The root once that array is Array.
WithArr(Array) ==
    MakeShared([Properties |->
        Store(RootObject.obj.Properties, <<"a">>, ArrayValue(MakeShared(Array)))])

\* The indices the caller uses: those of the longest array and two beyond.
Indices == 0..(MaxArray + 1)

InitArray ==
    /\ Tokenizer = TokenizerInit(<<>>)
    /\ CurrentToken = InvalidToken
    /\ ErrorMessage = NoError
    /\ RootObject = WithSlot(MakeShared(NewJsonObject), <<"a">>,
                             CreateContainer(Undefined, "JsonArray").Value)
    /\ threw = "none"
    /\ reports = <<>>
    /\ input = <<>>
    /\ ret = [op |-> "CreateArray"]

\* An operation on Arr with the outcome r.
ArrayAccessed(op, Index, r) ==
    /\ RootObject' = WithArr(r.Array)
    /\ threw' = r.threw
    /\ ret' = [op |-> op, Index |-> Index, before |-> Arr, result |-> r.result]
    /\ UNCHANGED <<Tokenizer, CurrentToken, ErrorMessage, reports, input>>

\* Arr.AddValue() = ValueIn
DoAddValue ==
    \E ValueIn \in Scalars :
        /\ Len(Arr.Values) < MaxArray
        /\ ArrayAccessed("AddValue", Len(Arr.Values),
                         AssignedAt(AddValue(Arr), Len(Arr.Values), ValueIn))

\* Arr[Index] = ValueIn
DoIndexAssign ==
    \E Index \in Indices, ValueIn \in Scalars :
        ArrayAccessed("IndexAssign", Index,
                      AssignedAt(ArraySubscript(Arr, Index), Index, ValueIn))

\* std::as_const(Arr)[Index]
DoIndexConst ==
    \E Index \in Indices :
        ArrayAccessed("IndexConst", Index, ArraySubscript(Arr, Index))

\* HasField<T>(Arr, Index)
DoHasField ==
    \E Index \in Indices, T \in {"void", "int"} :
        /\ ret' = [op |-> "HasField", Index |-> Index, T |-> T, before |-> Arr,
                   result |-> HasFieldArray(T, Arr, Index)]
        /\ threw' = "none"
        /\ UNCHANGED <<Tokenizer, CurrentToken, ErrorMessage, RootObject,
                       reports, input>>

NextArray ==
    \/ DoAddValue
    \/ DoIndexAssign
    \/ DoIndexConst
    \/ DoHasField

SpecArray == InitArray /\ [][NextArray]_vars

\* ------------------------------------------------------------------------
\* Properties of the array operations (SpecArray)
\* ------------------------------------------------------------------------

\* C16: operator[] of an array, writable or const, with an index not below
\* its length throws, binds no accessor and leaves the array as it was;
\* HasField of such an index is false.
C16_IndexBeyondLengthThrows ==
    /\ (ret.op \in {"IndexAssign", "IndexConst"}
          /\ ret.Index >= Len(ret.before.Values))
        => /\ threw = "out_of_range"
           /\ ret.result = Undefined
           /\ Arr = ret.before
    /\ (ret.op = "HasField" /\ ret.Index >= Len(ret.before.Values))
        => /\ ret.result = FALSE
           /\ Arr = ret.before

\* C16 witness: Arr[2] = v on an array of two values has thrown.
C16_Witness ==
    /\ ret.op = "IndexAssign"
    /\ Len(ret.before.Values) = 2
    /\ ret.Index = 2
    /\ threw = "out_of_range"
    /\ Len(Arr.Values) = 2

\* ------------------------------------------------------------------------
\* SpecList: a list given to Json, JsonObject, JsonArray and an accessor
\* ------------------------------------------------------------------------

MaxList == 2

\* The lists written inside an entry: {{"b", "s"}, {1}} and {{1}, {"a", 1}}
InnerLists ==
    { <<InitValue(SomeKey(<<"b">>), StringValue(<<"s">>)),
        InitValue(NoKey, IntValue(1))>>,
      <<InitValue(NoKey, IntValue(1)),
        InitValue(SomeKey(<<"a">>), IntValue(1))>> }

\* The entries of the lists: keyed and unkeyed scalars, and nested lists.
ListEntries ==
    {InitValue(SomeKey(<<"a">>), IntValue(1)),
     InitValue(SomeKey(<<"a">>), IntValue(2)),
     InitValue(SomeKey(<<"b">>), StringValue(<<"s">>)),
     InitValue(NoKey, IntValue(1)),
     InitValue(NoKey, StringValue(<<"s">>))}
    \cup {InitNested(SomeKey(<<"b">>), l) : l \in InnerLists}
    \cup {InitNested(NoKey, l) : l \in InnerLists}

Lists == UNION {[1..n -> ListEntries] : n \in 0..MaxList}

\* The documents the list is given to: a new one, and one that holds an
\* object under "a" and an array under "b".
PriorRoots ==
    {MakeShared(NewJsonObject),
     MakeShared([Properties |->
        Store(Store(EmptyMap, <<"a">>,
                    ObjectValue(MakeShared([Properties |->
                        Store(EmptyMap, <<"b">>, StringValue(<<"s">>))]))),
              <<"b">>,
              ArrayValue(MakeShared([Values |-> <<IntValue(1)>>])))])}

InitList ==
    /\ Tokenizer = TokenizerInit(<<>>)
    /\ CurrentToken = InvalidToken
    /\ ErrorMessage = NoError
    /\ RootObject \in PriorRoots
    /\ threw = "none"
    /\ reports = <<>>
    /\ input = <<>>
    /\ ret = [op |-> "Json"]

\* The document after an operation that was given List and found before.
ListGiven(op, List, before, Root) ==
    /\ ret.op = "Json"
    /\ RootObject' = Root
    /\ ret' = [op |-> op, List |-> List, before |-> before]
    /\ UNCHANGED <<Tokenizer, CurrentToken, ErrorMessage, threw, reports,
                   input>>

\* doc = List
DoJsonList ==
    \E List \in Lists :
        ListGiven("JsonList", List, RootObject.obj,
                  JsonInitFromList(RootObject, List))

\* doc["a"] = List
DoAssignList ==
    \E List \in Lists :
        ListGiven("AssignList", List, SlotOf(RootObject, <<"a">>),
                  WithSlot(RootObject, <<"a">>,
                           AssignList(SlotOf(RootObject, <<"a">>), List).Value))

\* The object doc["a"].CreateObject() returns
CreatedObject == CreateContainer(SlotOf(RootObject, <<"a">>), "JsonObject").result.obj

\* doc["a"].CreateObject() = List
DoObjectList ==
    \E List \in Lists :
        ListGiven("ObjectList", List, CreatedObject,
                  WithSlot(RootObject, <<"a">>,
                           ObjectValue(MakeShared(
                               ObjectInitFromList(CreatedObject, List)))))

\* The array doc["b"].CreateArray() returns
CreatedArray == CreateContainer(SlotOf(RootObject, <<"b">>), "JsonArray").result.obj

\* doc["b"].CreateArray() = List
DoArrayList ==
    \E List \in Lists :
        ListGiven("ArrayList", List, CreatedArray,
                  WithSlot(RootObject, <<"b">>,
                           ArrayValue(MakeShared(
                               ArrayInitFromList(CreatedArray, List)))))

NextList ==
    \/ DoJsonList
    \/ DoAssignList
    \/ DoObjectList
    \/ DoArrayList

SpecList == InitList /\ [][NextList]_vars

\* ------------------------------------------------------------------------
\* Properties of the construction from lists (SpecList)
\* ------------------------------------------------------------------------

ListOps == {"JsonList", "AssignList", "ObjectList", "ArrayList"}

\* The keys of the properties are those of the keyed entries of List, and
\* each property holds the value of a keyed entry with its key.
HoldsKeyed(Properties, List) ==
    /\ DOMAIN Properties =
         {List[i].Key.v : i \in {j \in 1..Len(List) : List[j].Key.has}}
    /\ \A k \in DOMAIN Properties :
         \E i \in 1..Len(List) :
            /\ List[i].Key.has
            /\ List[i].Key.v = k
            /\ List[i].Value = Properties[k]

RECURSIVE UnkeyedOf(_)
\* The values of the entries of List without a key, in their order.
UnkeyedOf(List) ==
    IF List = <<>> THEN <<>>
    ELSE (IF List[1].Key.has THEN <<>> ELSE <<List[1].Value>>)
         \o UnkeyedOf(Tail(List))

\* Value is what the rule of the first entry makes of the list.
FollowsList(Value, List) ==
    IF List[1].Key.has
    THEN /\ Value.type = "Object"
         /\ ~Value.ptr.null
         /\ HoldsKeyed(Value.ptr.obj.Properties, List)
    ELSE /\ Value.type = "Array"
         /\ ~Value.ptr.null
         /\ Value.ptr.obj.Values = UnkeyedOf(List)

\* Every entry written as a nested list holds what the rule makes of it.
NestedFollow(List) ==
    \A i \in 1..Len(List) :
        List[i].List # <<>> => FollowsList(List[i].Value, List[i].List)

\* What the operation constructed or assigned.
ListTarget ==
    CASE ret.op = "JsonList" -> ObjectValue(RootObject)
      [] ret.op = "ArrayList" -> SlotOf(RootObject, <<"b">>)
      [] OTHER -> SlotOf(RootObject, <<"a">>)

\* C17 as claimed: at every construction point a list whose first entry has
\* a key gives an object of exactly the keyed entries, and a list whose
\* first entry has none gives an array of exactly the unkeyed entries in
\* their order; nested entries included.
C17_ListConstruction ==
    (ret.op \in ListOps /\ ret.List # <<>>)
        => /\ FollowsList(ListTarget, ret.List)
           /\ NestedFollow(ret.List)

\* C17 as amended: the rule holds for accessor assignment and for nested
\* entries; a JsonObject and the root take the keyed entries of a list whose
\* first entry has a key and are left as they were by any other list; a
\* JsonArray takes the unkeyed entries of a list whose first entry has no key
\* and is left as it was by any other list.
C17_ListConstructionByPoint ==
    (ret.op \in ListOps /\ ret.List # <<>>)
        => /\ NestedFollow(ret.List)
           /\ ret.op = "AssignList" => FollowsList(ListTarget, ret.List)
           /\ ret.op \in {"JsonList", "ObjectList"}
                => /\ ListTarget.type = "Object"
                   /\ ~ListTarget.ptr.null
                   /\ IF ret.List[1].Key.has
                      THEN HoldsKeyed(ListTarget.ptr.obj.Properties, ret.List)
                      ELSE ListTarget.ptr.obj = ret.before
           /\ ret.op = "ArrayList"
                => /\ ListTarget.type = "Array"
                   /\ ~ListTarget.ptr.null
                   /\ IF ret.List[1].Key.has
                      THEN ListTarget.ptr.obj = ret.before
                      ELSE ListTarget.ptr.obj.Values = UnkeyedOf(ret.List)

\* C17 witness: a list of an unkeyed and a keyed entry was assigned to a
\* JsonObject that held a property, and the object is as it was.
C17_Witness ==
    /\ ret.op = "ObjectList"
    /\ Len(ret.List) = 2
    /\ ~ret.List[1].Key.has
    /\ ret.List[2].Key.has
    /\ DOMAIN ret.before.Properties = {<<"b">>}
    /\ SlotOf(RootObject, <<"a">>).ptr.obj = ret.before

\* ------------------------------------------------------------------------
\* SpecTokens: a JsonTokenizer under PeekToken and GetToken
\* ------------------------------------------------------------------------

\* The number of lexemes of a text, and of PeekToken calls in a row.
MaxTokens == 2
MaxPeeks == 2

\* Enough GetToken calls to pass the end of every text.
MaxGets == MaxTokens + 1

TokenTexts == Tails(MaxTokens)

\* What the caller has seen: the call and the token it returned, the tokens
\* of the GetToken calls so far, and the tokens of the PeekToken calls made
\* in a row since the last GetToken before them.
Seen(op, token, gets, peeks) ==
    [op |-> op, token |-> token, gets |-> gets, peeks |-> peeks]

\* Tokenizer.Init(text) on a tokenizer nothing was asked of yet.
InitTokens ==
    /\ input \in TokenTexts
    /\ Tokenizer = TokenizerInit(input)
    /\ CurrentToken = InvalidToken
    /\ ErrorMessage = NoError
    /\ RootObject = MakeShared(NewJsonObject)
    /\ threw = "none"
    /\ reports = <<>>
    /\ ret = Seen("Init", InvalidToken, <<>>, <<>>)

\* Tokenizer.PeekToken()
DoPeekToken ==
    /\ ret.op = "GetToken" \/ Len(ret.peeks) < MaxPeeks
    /\ Tokenizer' = PeekToken(Tokenizer).t
    /\ ret' = Seen("PeekToken", PeekToken(Tokenizer).tok, ret.gets,
                   IF ret.op = "GetToken"
                   THEN <<PeekToken(Tokenizer).tok>>
                   ELSE Append(ret.peeks, PeekToken(Tokenizer).tok))
    /\ UNCHANGED <<CurrentToken, ErrorMessage, RootObject, threw, reports,
                   input>>

\* Tokenizer.GetToken()
DoGetToken ==
    /\ Len(ret.gets) < MaxGets
    /\ Tokenizer' = GetToken(Tokenizer).t
    /\ ret' = Seen("GetToken", GetToken(Tokenizer).tok,
                   Append(ret.gets, GetToken(Tokenizer).tok),
                   IF ret.op = "GetToken" THEN <<>> ELSE ret.peeks)
    /\ UNCHANGED <<CurrentToken, ErrorMessage, RootObject, threw, reports,
                   input>>

NextTokens == DoPeekToken \/ DoGetToken

SpecTokens == InitTokens /\ [][NextTokens]_vars

\* ------------------------------------------------------------------------
\* Properties of the tokenizer (SpecTokens)
\* ------------------------------------------------------------------------

RECURSIVE Lexing(_, _)
\* The n-th token of a text: NextToken applied n times from its start.
Lexing(t, n) ==
    IF n = 1 THEN NextToken(t).tok ELSE Lexing(NextToken(t).t, n - 1)

\* No token before the i-th of the sequence is Invalid.
UpToFirstInvalid(tokens, i) ==
    \A j \in 1..(i - 1) : tokens[j].Type # "Invalid"

\* C19: PeekToken calls in a row return the same token and the GetToken
\* after them returns that token, whatever its type; the tokens GetToken
\* returns are the tokens of the text in their order, none skipped and none
\* repeated, up to and including the first Invalid token.
C19_LookaheadIsStable ==
    /\ \A i \in 1..Len(ret.peeks) : ret.peeks[i] = ret.peeks[1]
    /\ (ret.op = "GetToken" /\ ret.peeks # <<>>) => ret.token = ret.peeks[1]
    /\ \A i \in 1..Len(ret.gets) :
          UpToFirstInvalid(ret.gets, i)
             => ret.gets[i] = Lexing(TokenizerInit(input), i)

\* C19 witness: GetToken returned a Number, PeekToken was called twice at
\* the Invalid token after it, and GetToken then returned that token.
C19_Witness ==
    /\ ret.op = "GetToken"
    /\ Len(ret.gets) = 2
    /\ ret.gets[1].Type = "Number"
    /\ Len(ret.peeks) = MaxPeeks
    /\ ret.peeks[1].Type = "Invalid"
    /\ ret.token = ret.peeks[1]

\* C19 at the end of the text: PeekToken twice and GetToken all returned the
\* None token after the last token of the text was returned.
C19_AtEndOfInput ==
    /\ ret.op = "GetToken"
    /\ Len(ret.gets) = 3
    /\ ret.gets[2].Type = "ObjectEnd"
    /\ Len(ret.peeks) = MaxPeeks
    /\ ret.peeks[1].Type = "None"
    /\ ret.token = ret.peeks[1]

\* ------------------------------------------------------------------------
\* SpecError: Parse of long texts with an error at a chosen position
\* ------------------------------------------------------------------------

\* n characters of whitespace, of three kinds in turn.
Blanks(n) == [i \in 1..n |-> CASE i % 3 = 0 -> " " [] i % 3 = 1 -> "\n"
                               [] OTHER -> "\t"]

\* n letters that start no token, ten of them in turn.
Letters == <<"g", "h", "i", "j", "k", "l", "m", "o", "p", "q">>
Filler(n) == [i \in 1..n |-> Letters[(i % 10) + 1]]

\* The characters before the token in error, which is then at that
\* position: none, fewer than MaxErrorLocation, as many, and more.
Befores == {0, 1, MaxErrorLocation - 1, MaxErrorLocation,
            MaxErrorLocation + 1, MaxErrorLocation + 10}

\* The characters after the first character of the token in error: fewer
\* than MaxErrorLocation from the token onward, as many, and more than
\* twice as many.
Afters == {0, MaxErrorLocation - 2, MaxErrorLocation - 1, MaxErrorLocation,
           2 * MaxErrorLocation - 1, 2 * MaxErrorLocation,
           2 * MaxErrorLocation + 10}

\* The token in error, the first of the text: an invalid character, and two
\* tokens that cannot start a document.
BadStarts == {"x", "[", ":"}

ErrorTexts ==
    {Blanks(n) \o <<c>> \o Filler(m) : n \in Befores, m \in Afters,
                                       c \in BadStarts}

InitError ==
    /\ Constructed
    /\ input \in ErrorTexts

NextError == ParseInput

SpecError == InitError /\ [][NextError]_vars

\* ------------------------------------------------------------------------
\* Properties of the error text (SpecError)
\* ------------------------------------------------------------------------

\* The snippet is the before characters of the text that precede Position,
\* the marker, and the onward characters that start at Position.
IsMarkedWindow(snippet, text, Position, before, onward) ==
    snippet = SubSeq(text, Position - before + 1, Position)
              \o <<ErrorMarker>>
              \o SubSeq(text, Position + 1, Position + onward)

\* C20: when the token of a parse error lies inside the text, the snippet of
\* the error text is a window of the text of at most MaxErrorLocation
\* characters before the position of the token and at most MaxErrorLocation
\* from it onward, with the marker inserted at the position of the token,
\* position 0 included.
C20_ErrorWindow ==
    (ret.op = "Parse" /\ HasError /\ ErrorMessage.Position < Len(input))
        => \E before \in 0..Min(MaxErrorLocation, ErrorMessage.Position),
              onward \in 0..Min(MaxErrorLocation,
                                Len(input) - ErrorMessage.Position) :
              IsMarkedWindow(ErrorMessage.ErrorLocation, input,
                             ErrorMessage.Position, before, onward)

\* What ThrowError builds: Diff characters before the position and up to
\* MaxErrorLocation + Diff from it onward, where Diff is the smaller of the
\* position and MaxErrorLocation, and no marker when Diff is 0.
ErrorWindowAsBuilt ==
    (ret.op = "Parse" /\ HasError /\ ErrorMessage.Position < Len(input))
        => IF ErrorMessage.Position = 0
           THEN ErrorMessage.ErrorLocation =
                    SubSeq(input, 1, Min(MaxErrorLocation, Len(input)))
           ELSE IsMarkedWindow(
                    ErrorMessage.ErrorLocation, input, ErrorMessage.Position,
                    Min(MaxErrorLocation, ErrorMessage.Position),
                    Min(MaxErrorLocation
                          + Min(MaxErrorLocation, ErrorMessage.Position),
                        Len(input) - ErrorMessage.Position))

\* The marker is there whenever the token is not at position 0.
MarkerUnlessAtStart ==
    (ret.op = "Parse" /\ HasError /\ ErrorMessage.Position < Len(input)
        /\ ErrorMessage.Position > 0)
        => \E i \in 1..Len(ErrorMessage.ErrorLocation) :
              ErrorMessage.ErrorLocation[i] = ErrorMarker

\* At most MaxErrorLocation characters of the text follow the marker.
OnwardWithinLimit ==
    (ret.op = "Parse" /\ HasError)
        => \A i \in 1..Len(ErrorMessage.ErrorLocation) :
              ErrorMessage.ErrorLocation[i] = ErrorMarker
                 => Len(ErrorMessage.ErrorLocation) - i <= MaxErrorLocation

\* ------------------------------------------------------------------------
\* Properties of the containers of the document (Spec)
\* ------------------------------------------------------------------------

\* C21: after Parse and any sequence of accessor operations every value of
\* the document whose alternative is Array or Object refers to a container,
\* never a null pointer, and no operation has dereferenced a null pointer.
C21_ContainersAreNeverNull ==
    /\ threw # DerefNull
    /\ ~RootObject.null
          => \A k \in DOMAIN RootObject.obj.Properties :
                IsValueTree(RootObject.obj.Properties[k])

\* ------------------------------------------------------------------------
\* SpecSteps: Parse as the steps of its call stack
\* ------------------------------------------------------------------------
\* Parse runs ParseObject, ParseArray and ParseValue step by step.  ret
\* holds the call stack, innermost call last, and the value the last call
\* that returned handed back.  A frame is one call: the function, where it
\* stands, the container it has built so far, the key of the property in
\* hand, and the position of the token its loop iteration started at.

\* The number of lexemes that follow the prefix in the texts of SpecSteps.
MaxStepTail == 2

\* A string that never ends.
Unterminated == <<"\"", "a">>

\* The texts of SpecParse with the shorter tails, as they are or ending in
\* a string without its closing quote.
StepTexts ==
    {p \o t \o u : p \in Prefixes, t \in Tails(MaxStepTail),
                   u \in {<<>>, Unterminated}}

Frame(fn, pc, Values, Properties, Key, at) ==
    [fn |-> fn, pc |-> pc, Values |-> Values, Properties |-> Properties,
     Key |-> Key, at |-> at]

\* A call that has just been made.
Called(fn) == Frame(fn, "start", <<>>, EmptyMap, <<>>, 0)

\* The members of Json the parsing functions work on.
Js ==
    [Tokenizer |-> Tokenizer, CurrentToken |-> CurrentToken,
     ErrorMessage |-> ErrorMessage, threw |-> threw, reports |-> reports]

Top == ret.stack[Len(ret.stack)]
Callers == SubSeq(ret.stack, 1, Len(ret.stack) - 1)

\* The innermost call is fn and stands at pc.
At(fn, pc) ==
    /\ ret.op = "Parsing"
    /\ ret.stack # <<>>
    /\ Top.fn = fn
    /\ Top.pc = pc

\* The innermost call is a loop of ParseObject or ParseArray about to end
\* an iteration.
EndsIteration ==
    At("ParseObject", "value") \/ At("ParseArray", "value")

\* The steps a Parse of the text may take before the count of its steps
\* stops: three for Parse and the start of ParseObject, and five for each
\* character, which is at most a token that opens a container: the start
\* and the return of ParseValue, the start of the container, the call for
\* its first value and the end of its last iteration.
StepLimit(text) == 5 * Len(text) + 3

\* One step was taken: the members are those of js, the stack and the value
\* handed back are as given.  An exception unwinds every call.  The observer
\* counts the steps of the Parse and notes whether the step ended an
\* iteration of a loop, at which token that iteration had started, and
\* whether the step left the loop.
Stepped(js, stack, result) ==
    /\ ret.steps <= StepLimit(input)
    /\ Tokenizer' = js.Tokenizer
    /\ CurrentToken' = js.CurrentToken
    /\ ErrorMessage' = js.ErrorMessage
    /\ threw' = js.threw
    /\ reports' = js.reports
    /\ ret' = [op |-> "Parsing",
               stack |-> IF js.threw = "none" THEN stack ELSE <<>>,
               result |-> result,
               steps |-> ret.steps + 1,
               ended |-> EndsIteration,
               at |-> IF EndsIteration THEN Top.at ELSE 0,
               left |-> stack = Callers]
    /\ UNCHANGED <<RootObject, input>>

\* return result;
Returns(js, result) == Stepped(js, Callers, result)

\* The innermost call goes on as frame.
GoesOn(js, frame) == Stepped(js, Append(Callers, frame), ret.result)

\* The innermost call, now frame, calls fn.
Calls(js, frame, fn) ==
    Stepped(js, Callers \o <<frame, Called(fn)>>, ret.result)

\* Json::Parse up to the call of ParseObject.
BeginParse ==
    /\ ret.op = "Json"
    /\ \E text \in StepTexts :
        /\ input' = text
        /\ Tokenizer' = TokenizerInit(text)
        /\ ErrorMessage' = NoError
        /\ reports' = <<>>
        /\ ret' = [op |-> "Parsing", stack |-> <<Called("ParseObject")>>,
                   result |-> NullPtr, steps |-> 1, ended |-> FALSE,
                   at |-> 0, left |-> FALSE]
        /\ UNCHANGED <<CurrentToken, RootObject, threw>>

\* ParseObject up to its loop.
ObjectStart ==
    /\ At("ParseObject", "start")
    /\ LET js == Consume(Js)
           peeked == Peek(js)
       IN  IF js.CurrentToken.Type # "ObjectStart"
           THEN Returns(ThrowError(js, js.CurrentToken, "Expected '{'"),
                        NullPtr)
           ELSE IF peeked.CurrentToken.Type = "ObjectEnd"
           THEN Returns(Consume(peeked), MakeShared(NewJsonObject))
           ELSE GoesOn(peeked, [Top EXCEPT !.pc = "loop",
                                  !.at = peeked.CurrentToken.Position])

\* The loop of ParseObject from the key to the call of ParseValue.
ObjectKey ==
    /\ At("ParseObject", "loop")
    /\ LET key == Consume(Js)
           colon == Consume(key)
       IN  IF CurrentToken.Type # "String"
           THEN Returns(ThrowError(Js, CurrentToken, "Expected string key"),
                        NullPtr)
           ELSE IF colon.CurrentToken.Type # "Colon"
           THEN Returns(ThrowError(colon, colon.CurrentToken, "Expected ':'"),
                        NullPtr)
           ELSE Calls(colon, [Top EXCEPT !.pc = "value",
                                !.Key = key.CurrentToken.Value],
                      "ParseValue")

\* The loop of ParseObject from the return of ParseValue to the end of the
\* iteration.
ObjectValue_ ==
    /\ At("ParseObject", "value")
    /\ LET Properties == Emplace(Top.Properties, Top.Key, ret.result)
           js == Consume(Js)
           peeked == Peek(js)
       IN  IF HasError THEN Returns(Js, NullPtr)
           ELSE IF js.CurrentToken.Type \notin {"Comma", "ObjectEnd"}
           THEN Returns(ThrowError(js, js.CurrentToken,
                                   "Expected ',' or '}'"), NullPtr)
           ELSE IF js.CurrentToken.Type = "ObjectEnd"
           THEN Returns(js, MakeShared([Properties |-> Properties]))
           ELSE GoesOn(peeked, [Top EXCEPT !.pc = "loop",
                                  !.Properties = Properties,
                                  !.at = peeked.CurrentToken.Position])

\* ParseArray up to its loop.
ArrayStart ==
    /\ At("ParseArray", "start")
    /\ LET js == Consume(Js)
           peeked == Peek(js)
       IN  IF js.CurrentToken.Type # "ArrayStart"
           THEN Returns(ThrowError(js, js.CurrentToken, "Expected '['"),
                        NullPtr)
           ELSE IF peeked.CurrentToken.Type = "ArrayEnd"
           THEN Returns(Consume(peeked), MakeShared(NewJsonArray))
           ELSE GoesOn(peeked, [Top EXCEPT !.pc = "loop",
                                  !.at = peeked.CurrentToken.Position])

\* The loop of ParseArray: the call of ParseValue.
ArrayItem ==
    /\ At("ParseArray", "loop")
    /\ Calls(Js, [Top EXCEPT !.pc = "value"], "ParseValue")

\* The loop of ParseArray from the return of ParseValue to the end of the
\* iteration.
ArrayValue_ ==
    /\ At("ParseArray", "value")
    /\ LET Values == Append(Top.Values, ret.result)
           js == Consume(Js)
           peeked == Peek(js)
       IN  IF HasError THEN Returns(Js, NullPtr)
           ELSE IF js.CurrentToken.Type \notin {"Comma", "ArrayEnd"}
           THEN Returns(ThrowError(js, js.CurrentToken,
                                   "Expected ',' or ']'"), NullPtr)
           ELSE IF js.CurrentToken.Type = "ArrayEnd"
           THEN Returns(js, MakeShared([Values |-> Values]))
           ELSE GoesOn(peeked, [Top EXCEPT !.pc = "loop",
                                  !.Values = Values,
                                  !.at = peeked.CurrentToken.Position])

\* ParseValue: Peek() and the switch, up to its return or to the call of
\* ParseObject or ParseArray.
ValueStart ==
    /\ At("ParseValue", "start")
    /\ LET js == Peek(Js)
           Type == js.CurrentToken.Type
           scalar == CASE Type = "String" -> StringParsed(Consume(js))
                       [] Type = "Number" -> NumberParsed(Consume(js))
                       [] Type = "Null" -> Parsed(Consume(js), NullValue)
                       [] Type = "Boolean" -> BooleanParsed(Consume(js))
                       [] OTHER ->
                            Parsed(ThrowError(
                                       js, js.CurrentToken,
                                       "Unexpected token while parsing value"),
                                   Undefined)
       IN  IF Type = "ObjectStart"
           THEN Calls(js, [Top EXCEPT !.pc = "object"], "ParseObject")
           ELSE IF Type = "ArrayStart"
           THEN Calls(js, [Top EXCEPT !.pc = "array"], "ParseArray")
           ELSE Returns(scalar.js, scalar.result)

\* ParseValue: return ParseObject(); and return ParseArray();
ValueReturn ==
    \/ /\ At("ParseValue", "object")
       /\ Returns(Js, ObjectValue(ret.result))
    \/ /\ At("ParseValue", "array")
       /\ Returns(Js, ArrayValue(ret.result))

\* Json::Parse from the return of ParseObject, or from the exception that
\* left it: RootObject is assigned only in the first case.
EndParse ==
    /\ ret.op = "Parsing"
    /\ ret.stack = <<>>
    /\ RootObject' = IF threw = "none" THEN ret.result ELSE RootObject
    /\ ret' = [op |-> "Parse", steps |-> ret.steps + 1]
    /\ UNCHANGED <<Tokenizer, CurrentToken, ErrorMessage, threw, reports,
                   input>>

\* A document just constructed; the text is given with the call of Parse.
InitSteps ==
    /\ Constructed
    /\ input = <<>>

NextSteps ==
    \/ BeginParse
    \/ ObjectStart
    \/ ObjectKey
    \/ ObjectValue_
    \/ ArrayStart
    \/ ArrayItem
    \/ ArrayValue_
    \/ ValueStart
    \/ ValueReturn
    \/ EndParse

SpecSteps == InitSteps /\ [][NextSteps]_vars

\* ------------------------------------------------------------------------
\* Properties of the steps of Parse (SpecSteps)
\* ------------------------------------------------------------------------

\* The steps of Parse end with the document that Parse as a whole gives.
StepsGiveParse ==
    ret.op = "Parse" =>
        [Tokenizer |-> Tokenizer, CurrentToken |-> CurrentToken,
         ErrorMessage |-> ErrorMessage, RootObject |-> RootObject,
         threw |-> threw, reports |-> reports] = Parse(FreshDoc, input)

\* A Parse that has not returned has a step to take: its innermost call
\* stands at one of the places a step starts from.
HasStep ==
    ret.op = "Parsing" =>
        \/ ret.stack = <<>>
        \/ /\ Top.fn \in {"ParseObject", "ParseArray"}
           /\ Top.pc \in {"start", "loop", "value"}
        \/ /\ Top.fn = "ParseValue"
           /\ Top.pc \in {"start", "object", "array"}

\* The step that ended an iteration left the parser at a token behind the
\* one the iteration started at, or left the loop with the error set or
\* with an exception.
IterationAdvanced ==
    (ret.op = "Parsing" /\ ret.ended) =>
        \/ CurrentToken.Position > ret.at
        \/ HasError /\ ret.left
        \/ threw # "none"

\* C22: Parse returns on every text: it always has a step to take until it
\* returns, and it takes no more steps than StepLimit allows for the text;
\* every iteration of the loops of ParseObject and ParseArray either
\* consumes at least one token or returns with the error set, also at an
\* invalid token, in a string without its closing quote and at the end of
\* the text.
C22_ParseTerminates ==
    /\ ret.op \in {"Parsing", "Parse"} => ret.steps <= StepLimit(input)
    /\ HasStep
    /\ IterationAdvanced

\* C22 witness: Parse has returned with an error on a text that ends in a
\* string without its closing quote, after a second iteration of the loop
\* of ParseArray.
C22_Witness ==
    /\ ret.op = "Parse"
    /\ HasError
    /\ Len(input) > 8
    /\ SubSeq(input, Len(input) - 1, Len(input)) = Unterminated
    /\ SubSeq(input, 1, 6) = <<"{", "\"", "b", "\"", ":", "[">>
    /\ \E i \in 1..Len(input) : input[i] = ","

=============================================================================
